---------------------------- MODULE Spec2Model ----------------------------
(***************************************************************************)
(* Model of the StudyRobo backend: the intent classifier, the forced tool  *)
(* dispatch, the Supabase-JWT gate, the conversation/message persistence   *)
(* layer and the POST /chat request pipeline.                              *)
(*                                                                         *)
(* Text is modelled as a sequence of one-character strings, so that        *)
(* str.lower(), "kw in text", str.split() and str.title() are computed     *)
(* rather than assumed.                                                    *)
(***************************************************************************)
EXTENDS Integers, Sequences, FiniteSets, TLC

(***************************************************************************)
(* Bounds of the model                                                     *)
(***************************************************************************)
\* largest number of words of a message handed to detect_intent
MaxWords == 2
\* largest number of HTTP requests accepted in one behaviour of Spec
MaxRequests == 1
\* largest number of HTTP requests accepted in one behaviour of SpecConv
MaxConvRequests == 3
\* largest number of conversations ever created
MaxConvs == 1

None == "None"

(***************************************************************************)
(* Python str operations on character sequences                            *)
(***************************************************************************)
UpperChars == <<"A","B","C","D","E","F","G","H","I","J","K","L","M","N","O","P","Q","R","S","T","U","V","W","X","Y","Z">>
LowerChars == <<"a","b","c","d","e","f","g","h","i","j","k","l","m","n","o","p","q","r","s","t","u","v","w","x","y","z">>

IndexIn(c, s) == IF \E i \in 1..Len(s) : s[i] = c THEN CHOOSE i \in 1..Len(s) : s[i] = c ELSE 0

LowerChar(c) == IF IndexIn(c, UpperChars) > 0 THEN LowerChars[IndexIn(c, UpperChars)] ELSE c
UpperChar(c) == IF IndexIn(c, LowerChars) > 0 THEN UpperChars[IndexIn(c, LowerChars)] ELSE c
IsLetter(c) == IndexIn(c, UpperChars) > 0 \/ IndexIn(c, LowerChars) > 0

\* str.lower()
Lower(s) == [i \in 1..Len(s) |-> LowerChar(s[i])]

\* str.title(): a letter is upper-cased when it does not follow a letter
Title(s) == [i \in 1..Len(s) |->
               IF i = 1 \/ ~IsLetter(s[i-1]) THEN UpperChar(s[i]) ELSE LowerChar(s[i])]

\* "kw in text"
Contains(kw, text) ==
  \E i \in 1..(Len(text) - Len(kw) + 1) : SubSeq(text, i, i + Len(kw) - 1) = kw

\* any(kw in text for kw in kws), kws a list
AnyIn(kws, text) == \E j \in 1..Len(kws) : Contains(kws[j], text)

\* str.split() on blanks
RECURSIVE Split(_)
Split(s) ==
  IF s = <<>> THEN <<>>
  ELSE IF s[1] = " " THEN Split(Tail(s))
  ELSE LET n == IF \E i \in 1..Len(s) : s[i] = " "
                 THEN (CHOOSE i \in 1..Len(s) : s[i] = " " /\ \A j \in 1..(i-1) : s[j] # " ") - 1
                 ELSE Len(s)
       IN <<SubSeq(s, 1, n)>> \o Split(SubSeq(s, n + 1, Len(s)))

\* " ".join(words)
RECURSIVE Join(_)
Join(ws) ==
  IF ws = <<>> THEN <<>>
  ELSE IF Len(ws) = 1 THEN ws[1]
  ELSE ws[1] \o <<" ">> \o Join(Tail(ws))

(***************************************************************************)
(* detect_intent                                                           *)
(***************************************************************************)
\* the keys of the intents dict in insertion order
IntentOrder_swapped == <<"study", "attendance", "career", "email">>
IntentOrder == <<"study", "career", "attendance", "email">>

IntentKeywords ==
  [study |-> << <<"s","t","u","d","y">>, <<"l","e","a","r","n">>, <<"e","x","p","l","a","i","n">>, <<"w","h","a","t"," ","i","s">>, <<"h","e","l","p"," ","m","e"," ","u","n","d","e","r","s","t","a","n","d">>,
                <<"e","x","a","m">>, <<"t","o","p","i","c">>, <<"c","o","n","c","e","p","t">>, <<"a","l","g","o","r","i","t","h","m">>, <<"s","y","l","l","a","b","u","s">>,
                <<"m","a","t","e","r","i","a","l">>, <<"n","o","t","e","s">>, <<"h","o","m","e","w","o","r","k">>, <<"a","s","s","i","g","n","m","e","n","t">> >>,
   career |-> << <<"c","a","r","e","e","r">>, <<"j","o","b">>, <<"s","a","l","a","r","y">>, <<"w","o","r","k">>, <<"e","m","p","l","o","y","m","e","n","t">>,
                 <<"p","r","o","f","e","s","s","i","o","n">>, <<"f","i","e","l","d">>, <<"m","a","r","k","e","t">>, <<"o","p","p","o","r","t","u","n","i","t","y">>, <<"g","r","o","w","t","h">> >>,
   attendance |-> << <<"a","t","t","e","n","d","a","n","c","e">>, <<"p","r","e","s","e","n","t">>, <<"a","b","s","e","n","t">>, <<"m","a","r","k">>, <<"c","l","a","s","s">>, <<"c","o","u","r","s","e">> >>,
   email |-> << <<"e","m","a","i","l">>, <<"g","m","a","i","l">>, <<"i","n","b","o","x">>, <<"d","r","a","f","t">>, <<"s","e","n","d">>, <<"m","e","s","s","a","g","e">>,
                <<"u","n","r","e","a","d">>, <<"c","h","e","c","k">> >>]

detect_intent(message) ==
  LET message_lower == Lower(message)
      RECURSIVE scan(_)
      scan(i) == IF i > Len(IntentOrder) THEN "general"
                 ELSE IF AnyIn(IntentKeywords[IntentOrder[i]], message_lower)
                      THEN IntentOrder[i]
                      ELSE scan(i + 1)
  IN scan(1)

(***************************************************************************)
(* Python dict access and the replies built by f-strings                   *)
(***************************************************************************)
\* dict.get(k, default)
Get(d, k, default) == IF k \in DOMAIN d THEN d[k] ELSE default

\* A reply is the sequence of the pieces an f-string concatenates: S(x) is a
\* literal or an error/status string, T(x) interpolated message text.
S(x) == [s |-> x]
T(x) == [t |-> x]
ReplyContains(reply, piece) == \E i \in 1..Len(reply) : reply[i] = piece

(***************************************************************************)
(* extract_course_name                                                     *)
(***************************************************************************)
Courses ==
  << <<"c","o","m","p","u","t","e","r"," ","s","c","i","e","n","c","e">>, <<"m","a","t","h","e","m","a","t","i","c","s">>, <<"p","h","y","s","i","c","s">>, <<"c","h","e","m","i","s","t","r","y">>, <<"b","i","o","l","o","g","y">>,
     <<"e","n","g","l","i","s","h">>, <<"h","i","s","t","o","r","y">>, <<"g","e","o","g","r","a","p","h","y">>, <<"e","c","o","n","o","m","i","c","s">>, <<"p","s","y","c","h","o","l","o","g","y">>,
     <<"d","a","t","a"," ","s","t","r","u","c","t","u","r","e","s">>, <<"a","l","g","o","r","i","t","h","m","s">>, <<"d","a","t","a","b","a","s","e">>, <<"w","e","b"," ","d","e","v","e","l","o","p","m","e","n","t">>,
     <<"m","a","c","h","i","n","e"," ","l","e","a","r","n","i","n","g">>, <<"a","r","t","i","f","i","c","i","a","l"," ","i","n","t","e","l","l","i","g","e","n","c","e">> >>

CourseStopWords == { <<"m","a","r","k">>, <<"a","t","t","e","n","d","a","n","c","e">>, <<"p","r","e","s","e","n","t">>, <<"h","e","r","e">>, <<"c","l","a","s","s">>, <<"c","o","u","r","s","e">> }

extract_course_name(message) ==
  LET message_lower == Lower(message)
      words == Split(message_lower)
      cand == { i \in 1..Len(words) : Len(words[i]) > 3 /\ words[i] \notin CourseStopWords }
  IN IF AnyIn(Courses, message_lower)
     THEN Courses[CHOOSE j \in 1..Len(Courses) :
                    /\ Contains(Courses[j], message_lower)
                    /\ \A k \in 1..(j-1) : ~Contains(Courses[k], message_lower)]
     ELSE IF cand # {}
          THEN Title(words[CHOOSE i \in cand : \A k \in cand : i <= k])
          ELSE <<"G","e","n","e","r","a","l">>

(***************************************************************************)
(* The tool functions, as far as execute_tool sees them                    *)
(***************************************************************************)
ToolNames == {"get_study_material", "get_career_insights", "mark_attendance",
              "get_attendance_records", "get_unread_emails", "draft_email"}

\* whether the tool function is declared "async def" (a coroutine function);
\* awaiting the value of a plain "def" raises TypeError
IsCoroutine ==
  [get_study_material |-> TRUE,  get_career_insights |-> FALSE,
   mark_attendance |-> FALSE,    get_attendance_records |-> FALSE,
   get_unread_emails |-> TRUE,   draft_email |-> TRUE]

AwaitTypeError == "object dict can't be used in 'await' expression"

NoMaterial == "No relevant study materials found for your query."

\* the dicts get_study_material can return
StudyReturns ==
  { [success |-> FALSE, error |-> "OpenAI API key not configured"],
    [success |-> FALSE, error |-> "embedding request failed"],
    [success |-> TRUE, context |-> NoMaterial],
    [success |-> TRUE, context |-> "From Your Document (notes.pdf)"] }

\* the dicts get_career_insights can return
CareerReturns ==
  { [success |-> FALSE, error |-> "TAVILY_API_KEY not configured"],
    [success |-> FALSE, error |-> "No search results returned"],
    [success |-> TRUE, insights |-> "insights"] }

\* the dicts get_unread_emails can return
UnreadReturns ==
  { [success |-> FALSE, error |-> "Gmail not connected", emails |-> <<>>, auth_required |-> TRUE],
    [success |-> FALSE, error |-> "Token expired or invalid. Please re-authenticate with Google.",
     emails |-> <<>>, auth_required |-> TRUE],
    [success |-> TRUE, emails |-> <<>>],
    [success |-> TRUE, emails |-> <<"Welcome">>] }

\* the dicts draft_email can return
DraftReturns ==
  { [success |-> FALSE, error |-> "Token expired or invalid. Please re-authenticate with Google.",
     draft_id |-> None],
    [success |-> TRUE, draft_id |-> "d1", draft_url |-> "https://mail.google.com/mail/u/0/#drafts/d1"] }

\* tools/attendance_tools_supabase.mark_attendance: the row it inserts and the
\* dict it returns; dbok = FALSE is a failing database statement, marked_at is
\* the column default, the database clock
mark_attendance_row(course_name, user_id, marked_at) ==
  [user_id |-> user_id, course_name |-> course_name, marked_at |-> marked_at]

mark_attendance_ret_optimistic(course_name, user_id, dbok) ==
  [success |-> TRUE,
   message |-> <<"S","u","c","c","e","s","s","f","u","l","l","y"," ","m","a","r","k","e","d"," ","a","t","t","e","n","d","a","n","c","e"," ","f","o","r"," ","c","o","u","r","s","e"," ">> \o course_name]
mark_attendance_ret(course_name, user_id, dbok) ==
  IF dbok
  THEN [success |-> TRUE,
        message |-> <<"S","u","c","c","e","s","s","f","u","l","l","y"," ","m","a","r","k","e","d"," ","a","t","t","e","n","d","a","n","c","e"," ","f","o","r"," ","c","o","u","r","s","e"," ">> \o course_name]
  ELSE [success |-> FALSE, error |-> "Error marking attendance: database error"]

\* tools/attendance_tools_supabase.get_attendance_records over the attendance
\* table (ORDER BY marked_at DESC: newest first)
get_attendance_records(att, user_id, course_name, dbok) ==
  IF ~dbok
  THEN [success |-> FALSE, error |-> "Error retrieving attendance records: database error",
        records |-> <<>>]
  ELSE LET idx == { i \in 1..Len(att) :
                      /\ att[i].user_id = user_id
                      /\ (course_name # <<>> => att[i].course_name = course_name) }
           RECURSIVE desc(_)
           desc(s) == IF s = {} THEN <<>>
                      ELSE LET m == CHOOSE i \in s : \A k \in s : k <= i
                           IN <<[course_name |-> att[m].course_name, marked_at |-> att[m].marked_at]>> \o desc(s \ {m})
       IN [success |-> TRUE, records |-> desc(idx)]

(***************************************************************************)
(* execute_tool                                                            *)
(***************************************************************************)
\* "await f(...)" inside the try of execute_tool: an exception of the tool
\* function is caught, the value of a coroutine function is returned, and the
\* value of a plain function raises TypeError, which is caught as well
Await(tool_name, returned) ==
  IF "raised" \in DOMAIN returned
  THEN [success |-> FALSE, error |-> returned.raised]
  ELSE IF IsCoroutine[tool_name]
  THEN returned
  ELSE [success |-> FALSE, error |-> AwaitTypeError]

\* whether execute_tool gets as far as calling the tool function
ToolFunctionCalled_noGuard(tool_name, google_access_token, user_id, google_id) ==
  tool_name \in ToolNames
ToolFunctionCalled(tool_name, google_access_token, user_id, google_id) ==
  CASE tool_name \in {"get_study_material", "get_career_insights"} -> TRUE
    [] tool_name \in {"mark_attendance", "get_attendance_records"} -> user_id # 0
    [] tool_name = "get_unread_emails" -> google_id # None
    [] tool_name = "draft_email" -> google_access_token # None
    [] OTHER -> FALSE

\* the dict execute_tool returns; returned is what the tool function returns
\* when it is called
execute_tool(tool_name, google_access_token, user_id, google_id, returned) ==
  IF ToolFunctionCalled(tool_name, google_access_token, user_id, google_id)
  THEN Await(tool_name, returned)
  ELSE CASE tool_name = "mark_attendance" ->
              [success |-> FALSE, error |-> "User ID is required for attendance marking"]
         [] tool_name = "get_attendance_records" ->
              [success |-> FALSE, error |-> "User ID is required for attendance records"]
         [] tool_name = "get_unread_emails" ->
              [success |-> FALSE, error |-> "User authentication required"]
         [] tool_name = "draft_email" ->
              [success |-> FALSE, error |-> "Google access token is required"]
         [] OTHER ->
              [success |-> FALSE, error |-> "Unknown tool"]

(***************************************************************************)
(* verify_supabase_token                                                   *)
(***************************************************************************)
GoogleIds == {"g1", "g2", "g3"}

\* a JWT: undecodable, or a payload with optional sub and email claims and an
\* exp claim that lies in the past (expired) or not
Tokens ==
  {[decodable |-> FALSE]} \cup
  [decodable : {TRUE}, sub : GoogleIds \cup {None}, email : {"mail", None}, expired : BOOLEAN]

\* the Authorization header: absent, empty, not starting with "Bearer ", or
\* "Bearer " followed by a token
Headers ==
  {[kind |-> "missing"], [kind |-> "empty"], [kind |-> "basic"]} \cup
  [kind : {"bearer"}, token : Tokens]

\* "import jwt" pins no version of PyJWT: the installed major version is 1 or 2
PyJWTVersions == {1, 2}

jwt_options == [verify_signature |-> FALSE]

\* jwt.decode(token, options=...): PyJWT 1 validates the exp claim unless
\* verify_exp is switched off; in PyJWT 2, verify_signature = False makes
\* verify_exp default to False as well
jwt_decode(token, options, pyjwt) ==
  LET verify_exp == Get(options, "verify_exp", IF pyjwt >= 2 THEN options.verify_signature ELSE TRUE)
  IN IF ~token.decodable THEN [raised |-> "InvalidTokenError"]
     ELSE IF verify_exp /\ token.expired THEN [raised |-> "ExpiredSignatureError"]
     ELSE [raised |-> None, payload |-> [sub |-> token.sub, email |-> token.email]]

HTTPException(status, detail) == [status |-> status, detail |-> detail]

verify_supabase_token(authorization, pyjwt) ==
  IF authorization.kind \in {"missing", "empty"}
  THEN HTTPException(401, "Authorization header missing")
  ELSE IF authorization.kind # "bearer"
  THEN HTTPException(401, "Invalid authorization format")
  ELSE LET d == jwt_decode(authorization.token, jwt_options, pyjwt)
       IN IF d.raised = "ExpiredSignatureError" THEN HTTPException(401, "Token has expired")
          ELSE IF d.raised # None THEN HTTPException(401, "Invalid token")
          ELSE IF d.payload.sub = None \/ d.payload.email = None
               \* the 401 raised inside the try is caught by "except Exception"
               \* and raised again as a 401
               THEN HTTPException(401, "Token verification failed")
               ELSE [status |-> 200,
                     user |-> [user_id |-> d.payload.sub, email |-> d.payload.email,
                               google_id |-> d.payload.sub]]

(***************************************************************************)
(* The routes of api_router and their Depends(verify_supabase_token)       *)
(***************************************************************************)
RequiresToken_open ==
  [chat |-> TRUE, chat_messages |-> TRUE, chat_health |-> FALSE, chat_test |-> FALSE,
   create_conversation |-> TRUE, list_conversations |-> TRUE,
   delete_conversation |-> FALSE, update_conversation |-> TRUE,
   get_conversation_messages |-> TRUE, add_message |-> TRUE,
   conversations_health |-> FALSE,
   documents_user |-> TRUE, documents_upload |-> TRUE, documents_delete |-> TRUE,
   documents_get |-> TRUE,
   gmail_info |-> TRUE, gmail_health |-> FALSE,
   attendance_mark |-> TRUE, attendance_stats |-> TRUE, attendance_health |-> FALSE,
   auth_me |-> TRUE, auth_sync_user |-> TRUE, auth_google_auth_url |-> TRUE,
   auth_google_callback |-> TRUE, auth_store_google_tokens |-> TRUE,
   auth_get_google_tokens |-> TRUE, auth_health |-> FALSE]
RequiresToken ==
  [chat |-> TRUE, chat_messages |-> TRUE, chat_health |-> FALSE, chat_test |-> FALSE,
   create_conversation |-> TRUE, list_conversations |-> TRUE,
   delete_conversation |-> TRUE, update_conversation |-> TRUE,
   get_conversation_messages |-> TRUE, add_message |-> TRUE,
   conversations_health |-> FALSE,
   documents_user |-> TRUE, documents_upload |-> TRUE, documents_delete |-> TRUE,
   documents_get |-> TRUE,
   gmail_info |-> TRUE, gmail_health |-> FALSE,
   attendance_mark |-> TRUE, attendance_stats |-> TRUE, attendance_health |-> FALSE,
   auth_me |-> TRUE, auth_sync_user |-> TRUE, auth_google_auth_url |-> TRUE,
   auth_google_callback |-> TRUE, auth_store_google_tokens |-> TRUE,
   auth_get_google_tokens |-> TRUE, auth_health |-> FALSE]

Endpoints == DOMAIN RequiresToken
HealthChecks == {"chat_health", "conversations_health", "gmail_health",
                 "attendance_health", "auth_health"}

\* FastAPI resolves the dependencies of a route before it calls the handler:
\* the 401 of verify_supabase_token answers the request, the handler never
\* runs. The outcomes are those of the PyJWT versions the build can hold.
Depends(ep, authorization) ==
  IF RequiresToken[ep]
  THEN { verify_supabase_token(authorization, v) : v \in PyJWTVersions }
  ELSE { [status |-> 200, user |-> [user_id |-> None, email |-> None, google_id |-> None]] }

\* conversation ids are the uuids the database hands out
ConvNames == <<"c1", "c2", "c3", "c4">>
\* a user_id of None is falsy, as 0 is
NoUserId == 0

(***************************************************************************)
(* db_client: the tables are sets of rows; created_at is the database      *)
(* clock at the insert                                                     *)
(***************************************************************************)
NoError == <<>>
NotFoundOrDenied == <<"C","o","n","v","e","r","s","a","t","i","o","n"," ","n","o","t"," ","f","o","u","n","d"," ","o","r"," ","a","c","c","e","s","s"," ","d","e","n","i","e","d">>
ConversationNotFound == <<"C","o","n","v","e","r","s","a","t","i","o","n"," ","n","o","t"," ","f","o","u","n","d">>
UserNotFound == <<"U","s","e","r"," ","n","o","t"," ","f","o","u","n","d"," ","f","o","r"," ","G","o","o","g","l","e"," ","I","D">>

\* SELECT id FROM users WHERE google_id = g
UserRows(us, g) == { u \in us : u.google_id = g }
UserIdOf(us, g) == (CHOOSE u \in UserRows(us, g) : TRUE).id

\* ORDER BY created_at
RECURSIVE OrderByCreatedAt(_)
OrderByCreatedAt(rows) ==
  IF rows = {} THEN <<>>
  ELSE LET first == CHOOSE r \in rows : \A q \in rows : r.created_at <= q.created_at
       IN <<first>> \o OrderByCreatedAt(rows \ {first})

\* get_messages(user_id)
get_messages(msgs, user_id) ==
  LET rows == OrderByCreatedAt({ m \in msgs : m.user_id = user_id })
  IN [i \in 1..Len(rows) |-> [role |-> rows[i].role, content |-> rows[i].content]]

\* get_messages_by_conversation(conversation_id, google_id); google_id = None
\* is the legacy call without the ownership join
get_messages_by_conversation_legacy(msgs, convs, us, conversation_id, google_id) ==
  LET rows == OrderByCreatedAt({ m \in msgs : m.conversation_id = conversation_id })
  IN [i \in 1..Len(rows) |-> [id |-> rows[i].id, role |-> rows[i].role, content |-> rows[i].content]]
get_messages_by_conversation(msgs, convs, us, conversation_id, google_id) ==
  LET joined == { m \in msgs :
                    /\ m.conversation_id = conversation_id
                    /\ (google_id # None =>
                          \E c \in convs, u \in us :
                            c.id = m.conversation_id /\ c.user_id = u.id /\ u.google_id = google_id) }
      rows == OrderByCreatedAt(joined)
  IN [i \in 1..Len(rows) |-> [id |-> rows[i].id, role |-> rows[i].role, content |-> rows[i].content]]

\* INSERT INTO messages
MessageRow(id, conversation_id, user_id, role, content, now) ==
  [id |-> id, conversation_id |-> conversation_id, user_id |-> user_id,
   role |-> role, content |-> content, created_at |-> now]

\* add_message(user_id, role, content)
add_message(msgs, user_id, role, content, id, now) ==
  msgs \cup {MessageRow(id, None, user_id, role, content, now)}

\* add_message_to_conversation(conversation_id, role, content); the owner stored
\* with a conversation is always the integer id create_conversation wrote
add_message_to_conversation_overwrite(msgs, convs, conversation_id, role, content, id, now) ==
  LET result == { c \in convs : c.id = conversation_id }
  IN IF result = {}
     THEN [raised |-> ConversationNotFound, messages |-> msgs]
     ELSE LET user_id == (CHOOSE c \in result : TRUE).user_id
          IN [raised |-> NoError,
              messages |-> { m \in msgs : m.conversation_id # conversation_id } \cup
                           {MessageRow(id, conversation_id, user_id, role, content, now)}]
add_message_to_conversation_noCheck(msgs, convs, conversation_id, role, content, id, now) ==
  [raised |-> NoError,
   messages |-> msgs \cup {MessageRow(id, conversation_id, NoUserId, role, content, now)}]
add_message_to_conversation(msgs, convs, conversation_id, role, content, id, now) ==
  LET result == { c \in convs : c.id = conversation_id }
  IN IF result = {}
     THEN [raised |-> ConversationNotFound, messages |-> msgs]
     ELSE LET user_id == (CHOOSE c \in result : TRUE).user_id
          IN [raised |-> NoError,
              messages |-> msgs \cup {MessageRow(id, conversation_id, user_id, role, content, now)}]

\* the verify_query of delete_conversation and update_conversation_title
OwnsConversation(convs, us, conversation_id, google_id) ==
  \E c \in convs, u \in us :
    c.id = conversation_id /\ c.user_id = u.id /\ u.google_id = google_id

\* create_conversation(google_id, title)
create_conversation(convs, us, google_id, title, id) ==
  IF UserRows(us, google_id) = {}
  THEN [raised |-> UserNotFound, conversations |-> convs, id |-> None]
  ELSE [raised |-> NoError,
        conversations |-> convs \cup {[id |-> id, user_id |-> UserIdOf(us, google_id), title |-> title]},
        id |-> id]

\* delete_conversation(conversation_id, google_id)
delete_conversation_noVerify(msgs, convs, us, conversation_id, google_id) ==
  [raised |-> NoError,
   messages |-> { m \in msgs : m.conversation_id # conversation_id },
   conversations |-> { c \in convs : c.id # conversation_id }]
delete_conversation(msgs, convs, us, conversation_id, google_id) ==
  IF ~OwnsConversation(convs, us, conversation_id, google_id)
  THEN [raised |-> NotFoundOrDenied, messages |-> msgs, conversations |-> convs]
  ELSE [raised |-> NoError,
        messages |-> { m \in msgs : m.conversation_id # conversation_id },
        conversations |-> { c \in convs : c.id # conversation_id }]

\* update_conversation_title(conversation_id, google_id, title)
update_conversation_title(convs, us, conversation_id, google_id, title) ==
  IF ~OwnsConversation(convs, us, conversation_id, google_id)
  THEN [raised |-> NotFoundOrDenied, conversations |-> convs]
  ELSE [raised |-> NoError,
        conversations |-> { IF c.id = conversation_id THEN [c EXCEPT !.title = title] ELSE c
                            : c \in convs }]

\* the status the conversation endpoints give a ValueError
ValueErrorStatus(e) ==
  IF Contains(<<"n","o","t"," ","f","o","u","n","d">>, Lower(e)) THEN 404
  ELSE IF Contains(<<"a","c","c","e","s","s"," ","d","e","n","i","e","d">>, Lower(e)) THEN 403
  ELSE 500

(***************************************************************************)
(* get_llm_response_with_supabase: the forced tool of an intent            *)
(***************************************************************************)
MarkWords == << <<"m","a","r","k">>, <<"p","r","e","s","e","n","t">>, <<"h","e","r","e">>, <<"a","t","t","e","n","d","i","n","g">> >>
DraftWords == << <<"d","r","a","f","t">>, <<"w","r","i","t","e">>, <<"c","o","m","p","o","s","e">>, <<"s","e","n","d">> >>

\* the tool_name execute_tool is called with
SelectTool_generalDirect(intent, message) ==
  CASE intent = "study" -> "get_study_material"
    [] intent = "career" -> "get_career_insights"
    [] intent = "attendance" ->
         IF AnyIn(MarkWords, Lower(message)) THEN "mark_attendance" ELSE "get_attendance_records"
    [] intent = "email" ->
         IF AnyIn(DraftWords, Lower(message)) THEN "draft_email" ELSE "get_unread_emails"
    [] OTHER -> "get_career_insights"
SelectTool(intent, message) ==
  CASE intent = "study" -> "get_study_material"
    [] intent = "career" -> "get_career_insights"
    [] intent = "attendance" ->
         IF AnyIn(MarkWords, Lower(message)) THEN "mark_attendance" ELSE "get_attendance_records"
    [] intent = "email" ->
         IF AnyIn(DraftWords, Lower(message)) THEN "draft_email" ELSE "get_unread_emails"
    [] OTHER -> "get_study_material"

\* the tool_name recorded in tool_results
ToolLabel(intent, message) ==
  CASE intent = "study" -> "get_study_material"
    [] intent = "career" -> "get_career_insights"
    [] intent = "attendance" ->
         IF Contains(<<"m","a","r","k">>, Lower(message)) THEN "mark_attendance" ELSE "get_attendance_records"
    [] intent = "email" ->
         IF AnyIn(DraftWords, Lower(message)) THEN "draft_email" ELSE "get_unread_emails"
    [] OTHER -> "get_study_material"

(***************************************************************************)
(* process_tool_results                                                    *)
(***************************************************************************)
\* s[:n]
FirstN(s, n) == SubSeq(s, 1, IF Len(s) > n THEN n ELSE Len(s))

ErrorPrefix == "I encountered an error while processing your request: "

\* the reply, the number of LLM completions requested and the state reached;
\* llm_ok is whether the synthesis completion succeeds
process_tool_results(tool_name, result, original_message, llm_ok) ==
  LET formatted(r) == [reply |-> r, llm |-> 0, state |-> "RESULT_FORMATTED"]
  IN
  IF ~Get(result, "success", FALSE)
  THEN formatted(<<S(ErrorPrefix), S(Get(result, "error", "Unknown error"))>>)
  ELSE
  CASE tool_name = "get_study_material" ->
         IF Get(result, "context", "") = NoMaterial
         THEN formatted(<<S("I searched through your uploaded study materials but couldn't find relevant information for '"),
                          T(original_message), S("'.")>>)
         ELSE IF llm_ok
              THEN [reply |-> <<S("synthesized answer"),
                                S("*This answer is based on information from your uploaded study materials.*")>>,
                    llm |-> 1, state |-> "RESULT_SYNTHESIZED"]
              ELSE [reply |-> <<S("Based on your study materials, here's what I found:"),
                                S(Get(result, "context", ""))>>,
                    llm |-> 1, state |-> "RESULT_FORMATTED"]
    [] tool_name = "get_career_insights" ->
         IF Get(result, "insights", "") = ""
         THEN formatted(<<S("I couldn't find specific career insights.")>>)
         ELSE formatted(<<S("Here are some career insights:"), S(result.insights)>>)
    [] tool_name = "mark_attendance" ->
         IF Contains(<<"s","u","c","c","e","s","s">>, Lower(Get(result, "message", <<>>)))
         THEN formatted(<<S("Attendance marked successfully for "), T(extract_course_name(original_message))>>)
         ELSE formatted(<<S("There was an issue marking your attendance: "), T(Get(result, "message", <<>>))>>)
    [] tool_name = "get_attendance_records" ->
         IF Get(result, "records", <<>>) = <<>>
         THEN formatted(<<S("I couldn't find any attendance records for you.")>>)
         ELSE formatted(<<S("Here are your attendance records:")>> \o
                        [i \in 1..Len(FirstN(result.records, 10)) |-> T(result.records[i].course_name)])
    [] tool_name = "get_unread_emails" ->
         IF Get(result, "emails", <<>>) = <<>>
         THEN formatted(<<S("You have no unread emails in your inbox.")>>)
         ELSE formatted(<<S("You have unread email(s):")>> \o
                        [i \in 1..Len(FirstN(result.emails, 5)) |-> S(result.emails[i])])
    [] tool_name = "draft_email" ->
         IF Get(result, "draft_id", None) # None
         THEN formatted(<<S("Email draft created successfully! You can review and send it here: "),
                          S(Get(result, "draft_url", None))>>)
         ELSE formatted(<<S("There was an issue creating your email draft: "),
                          S(Get(result, "message", "Unknown error"))>>)
    [] OTHER ->
         formatted(<<S("Tool executed successfully, but I don't know how to format the response.")>>)

(***************************************************************************)
(* llm_factory: the providers and get_llm_provider                         *)
(***************************************************************************)
\* the keys of LLMFactory.providers
ProviderNames == {"openai", "glm", "gemini", "mistral", "openrouter"}

\* provider.available after __init__: keys holds the providers whose API key
\* is set, installed those whose client library can be imported. OpenAIProvider
\* sets available = True without looking at OPENAI_API_KEY.
Available(name, keys, installed) ==
  IF name = "openai" THEN name \in installed
  ELSE name \in installed /\ name \in keys

\* LLMFactory.get_provider(provider_name)
get_provider(provider_name, LLM_PROVIDER, keys, installed) ==
  LET name == IF provider_name = None \/ provider_name = "" THEN LLM_PROVIDER ELSE provider_name
  IN IF name \notin ProviderNames
     THEN [raised |-> "ValueError", detail |-> "Unknown LLM provider"]
     ELSE IF ~Available(name, keys, installed)
     THEN [raised |-> "ValueError",
           detail |-> "LLM provider is not available (missing dependencies or API key)"]
     ELSE [raised |-> "", provider |-> name]

\* get_llm_provider(provider_name)
get_llm_provider(provider_name, LLM_PROVIDER, keys, installed) ==
  get_provider(provider_name, LLM_PROVIDER, keys, installed)

(***************************************************************************)
(* State                                                                   *)
(***************************************************************************)
VARIABLES
  call,                \* the last evaluation of a function on its own
  users,               \* table users
  conversations,       \* table conversations
  messages,            \* table messages
  attendance,          \* table attendance, in insertion order
  nextConv,            \* number of conversation ids handed out
  nextMsg,             \* number of message ids handed out
  clock,               \* the database clock
  provider_available,  \* whether get_llm_provider() finds the configured provider
  budget,              \* number of requests the behaviour accepts
  req,                 \* the POST /chat or /chat/test request being handled
  resp,                \* the answer to the last request to another route
  nreq,                \* number of requests accepted
  posted               \* per conversation, what add_message_to_conversation stored

VARIABLES
  google_credentials,  \* whether GOOGLE_CLIENT_ID and GOOGLE_CLIENT_SECRET are set
  oauth_states,        \* email_tools._oauth_states
  now,                 \* datetime.utcnow(), in seconds
  oauth,               \* the states issued, the token exchanges and the last callback
  att,                 \* the calls of the attendance tools and those that marked
  storage,             \* the paths in the storage bucket user-documents
  documents,           \* table documents
  upload,              \* the last POST /documents/upload and the number of uploads
  foreign_key,         \* what messages.conversation_id REFERENCES conversations does
  procs                \* the db_client calls of concurrently handled requests

VARIABLES
  search,              \* the last search of the study material and the number of searches
  docreq,              \* the last request to a /documents/{id} or /documents/user route
  unique_google_id,    \* whether users.google_id carries a UNIQUE constraint
  sync,                \* the POST /auth/sync-user requests under way or answered
  markreq,             \* the last POST /attendance/mark and the number of them
  split                \* the run of SimpleTextSplitter.split_text

oauthVars == <<google_credentials, oauth_states, now, oauth>>
docVars == <<storage, documents, upload>>
raceVars == <<foreign_key, procs>>
lateVars == <<search, docreq, unique_google_id, sync, markreq, split>>
midVars == <<oauthVars, att, docVars, raceVars>>
auxVars == <<midVars, lateVars>>
procVars == <<call, provider_available, budget, req, resp, nreq>>

dbVars == <<users, conversations, messages, attendance, nextConv, nextMsg, clock, posted>>
vars == <<call, users, conversations, messages, attendance, nextConv, nextMsg, clock,
          provider_available, budget, auxVars, req, resp, nreq, posted>>

NoCall == [fn |-> "none"]
NoResult == [unset |-> TRUE]

IdleReq ==
  [pc |-> "idle", ep |-> "none", token_ok |-> FALSE, message |-> <<>>,
   conversation_id |-> None, user_id |-> NoUserId, google_id |-> None,
   intent |-> None, tool_name |-> None, tool_label |-> None,
   returned |-> NoResult, tool_result |-> NoResult, reply |-> <<>>,
   status |-> 0, execCalls |-> 0, llmCalls |-> 0, writes |-> 0, trace |-> <<>>]

NoResp ==
  [ep |-> "none", status |-> 0, token_ok |-> FALSE, handled |-> FALSE,
   google_id |-> None, conversation_id |-> None, error |-> <<>>, body |-> <<>>]

\* the requests the clients send
RequestHeaders ==
  { [kind |-> "missing"],
    [kind |-> "bearer", token |-> [decodable |-> FALSE]],
    [kind |-> "bearer", token |-> [decodable |-> TRUE, sub |-> "g1", email |-> "mail", expired |-> FALSE]],
    [kind |-> "bearer", token |-> [decodable |-> TRUE, sub |-> "g2", email |-> "mail", expired |-> FALSE]],
    [kind |-> "bearer", token |-> [decodable |-> TRUE, sub |-> "g3", email |-> "mail", expired |-> FALSE]] }

ChatMessages ==
  { <<"e","x","a","m">>, <<"j","o","b">>, <<"m","a","r","k"," ","a","t","t","e","n","d","a","n","c","e">>, <<"a","t","t","e","n","d","a","n","c","e">>, <<"a","t","t","e","n","d","a","n","c","e"," ","p","r","e","s","e","n","t">>,
    <<"e","m","a","i","l">>, <<"d","r","a","f","t"," ","e","m","a","i","l">>, <<"h","e","l","l","o">> }

PostContents == { <<"h","i">>, <<"y","o">> }
Titles == {"New Chat", "t1"}
ConvIds == { ConvNames[i] : i \in 1..MaxConvs }

\* whether the request carries a token verify_supabase_token accepts
TokenOk(h) == \A v \in PyJWTVersions : verify_supabase_token(h, v).status = 200

\* the process starts on a database that holds the users g1 and g2 (g3 never
\* signed in) and no messages
InitProcess ==
  /\ call = NoCall
  /\ users = {[id |-> 1, google_id |-> "g1"], [id |-> 2, google_id |-> "g2"]}
  /\ messages = {}
  /\ attendance = <<>>
  /\ nextMsg = 0
  /\ clock = 0
  /\ provider_available \in BOOLEAN
  /\ req = IdleReq
  /\ resp = NoResp
  /\ nreq = 0
  /\ posted = [c \in ConvIds |-> <<>>]

\* no OAuth state has been issued
EmptyMap == [s \in {} |-> 0]
NoCallback == [invoked |-> FALSE, state |-> None, status |-> 0]
OAuthIdle ==
  /\ google_credentials = TRUE
  /\ oauth_states = EmptyMap
  /\ now = 0
  /\ oauth = [issued |-> 0, exchanged |-> EmptyMap, posts |-> 0, callbacks |-> 0, cb |-> NoCallback]

AttIdle == att = [calls |-> 0, marks |-> <<>>]

NoUpload == [n |-> 0, done |-> FALSE]
DocsIdle == storage = {} /\ documents = {} /\ upload = NoUpload

RaceIdle == foreign_key = "none" /\ procs = <<>>

NoSearch == [n |-> 0, done |-> FALSE]
NoDocReq == [n |-> 0, done |-> FALSE]
NoMark == <<>>
NoSplit == [pc |-> "idle"]
LateIdle ==
  /\ search = NoSearch
  /\ docreq = NoDocReq
  /\ unique_google_id = TRUE
  /\ sync = <<>>
  /\ markreq = NoMark
  /\ split = NoSplit

AuxIdle == OAuthIdle /\ AttIdle /\ DocsIdle /\ RaceIdle /\ LateIdle

\* the database holds no conversation, or one that g1 created earlier
Init ==
  /\ InitProcess
  /\ AuxIdle
  /\ budget = MaxRequests
  /\ \/ conversations = {} /\ nextConv = 0
     \/ /\ conversations = {[id |-> ConvNames[1], user_id |-> 1, title |-> "New Chat"]}
        /\ nextConv = 1

(***************************************************************************)
(* The conversation routes                                                 *)
(***************************************************************************)
Answer(ep, h, a, status, gid, cid, err, body) ==
  [ep |-> ep, status |-> status, token_ok |-> TokenOk(h), handled |-> a.status = 200,
   google_id |-> gid, conversation_id |-> cid, error |-> err, body |-> body]

Rejected(ep, h, a) == Answer(ep, h, a, a.status, None, None, <<>>, <<>>)

\* a route whose handler touches none of the tables above: the health checks,
\* and the routes of the documents, gmail, attendance and auth routers
OtherRoutes ==
  Endpoints \ {"chat", "chat_test", "chat_messages", "create_conversation",
               "delete_conversation", "update_conversation",
               "get_conversation_messages", "add_message"}

\* the attendance routes never find the user: they read .data of a query they
\* did not execute
OtherStatus(ep) == IF ep \in {"attendance_mark", "attendance_stats"} THEN 404 ELSE 200

OtherRequest(ep, h) ==
  /\ nreq < budget
  /\ nreq' = nreq + 1
  /\ \E a \in Depends(ep, h) :
       resp' = IF a.status # 200 THEN Rejected(ep, h, a)
                ELSE Answer(ep, h, a, OtherStatus(ep), a.user.google_id, None, <<>>, <<>>)
  /\ UNCHANGED <<call, dbVars, provider_available, budget, auxVars, req>>

\* POST /conversations
CreateConversation(h, title) ==
  /\ nreq < budget
  /\ nextConv < MaxConvs
  /\ nreq' = nreq + 1
  /\ \E a \in Depends("create_conversation", h) :
       IF a.status # 200
        THEN /\ resp' = Rejected("create_conversation", h, a)
             /\ UNCHANGED <<conversations, nextConv>>
        ELSE LET r == create_conversation(conversations, users, a.user.google_id, title,
                                          ConvNames[nextConv + 1])
             IN IF r.raised # NoError
                THEN /\ resp' = Answer("create_conversation", h, a, 500, a.user.google_id, None, r.raised, <<>>)
                     /\ UNCHANGED <<conversations, nextConv>>
                ELSE /\ resp' = Answer("create_conversation", h, a, 200, a.user.google_id, r.id, <<>>, <<>>)
                     /\ conversations' = r.conversations
                     /\ nextConv' = nextConv + 1
  /\ UNCHANGED <<call, users, messages, attendance, nextMsg, clock, posted, provider_available, budget, auxVars, req>>

\* DELETE /conversations/{conversation_id}
DeleteConversation(h, cid) ==
  /\ nreq < budget
  /\ nreq' = nreq + 1
  /\ \E a \in Depends("delete_conversation", h) :
       IF a.status # 200
        THEN /\ resp' = Rejected("delete_conversation", h, a)
             /\ UNCHANGED <<conversations, messages>>
        ELSE LET r == delete_conversation(messages, conversations, users, cid, a.user.google_id)
             IN /\ resp' = IF r.raised # NoError
                           THEN Answer("delete_conversation", h, a, ValueErrorStatus(r.raised),
                                       a.user.google_id, cid, r.raised, <<>>)
                           ELSE Answer("delete_conversation", h, a, 200, a.user.google_id, cid, <<>>, <<>>)
                /\ conversations' = r.conversations
                /\ messages' = r.messages
  /\ UNCHANGED <<call, users, attendance, nextConv, nextMsg, clock, posted, provider_available, budget, auxVars, req>>

\* PUT /conversations/{conversation_id}
UpdateConversation(h, cid, title) ==
  /\ nreq < budget
  /\ nreq' = nreq + 1
  /\ \E a \in Depends("update_conversation", h) :
       IF a.status # 200
        THEN /\ resp' = Rejected("update_conversation", h, a)
             /\ UNCHANGED conversations
        ELSE LET r == update_conversation_title(conversations, users, cid, a.user.google_id, title)
             IN /\ resp' = IF r.raised # NoError
                           THEN Answer("update_conversation", h, a, ValueErrorStatus(r.raised),
                                       a.user.google_id, cid, r.raised, <<>>)
                           ELSE Answer("update_conversation", h, a, 200, a.user.google_id, cid, <<>>, <<>>)
                /\ conversations' = r.conversations
  /\ UNCHANGED <<call, users, messages, attendance, nextConv, nextMsg, clock, posted, provider_available, budget, auxVars, req>>

\* GET /conversations/{conversation_id}/messages
GetConversationMessages(h, cid) ==
  /\ nreq < budget
  /\ nreq' = nreq + 1
  /\ \E a \in Depends("get_conversation_messages", h) :
       resp' =
          IF a.status # 200 THEN Rejected("get_conversation_messages", h, a)
          ELSE LET ms == get_messages_by_conversation(messages, conversations, users, cid, a.user.google_id)
               IN IF ms = <<>> /\ ~\E c \in conversations : c.id = cid
                  THEN Answer("get_conversation_messages", h, a, 404, a.user.google_id, cid,
                              ConversationNotFound, <<>>)
                  ELSE Answer("get_conversation_messages", h, a, 200, a.user.google_id, cid, <<>>, ms)
  /\ UNCHANGED <<call, dbVars, provider_available, budget, auxVars, req>>

\* POST /conversations/{conversation_id}/messages
AddMessage(h, cid, content) ==
  /\ nreq < budget
  /\ nreq' = nreq + 1
  /\ \E a \in Depends("add_message", h) :
       IF a.status # 200
        THEN /\ resp' = Rejected("add_message", h, a)
             /\ UNCHANGED <<messages, nextMsg, clock, posted>>
        ELSE LET r == add_message_to_conversation(messages, conversations, cid, "user", <<T(content)>>,
                                                  nextMsg + 1, clock + 1)
             IN IF r.raised # NoError
                THEN /\ resp' = Answer("add_message", h, a,
                                       IF Contains(<<"n","o","t"," ","f","o","u","n","d">>, r.raised) THEN 404 ELSE 500,
                                       a.user.google_id, cid, r.raised, <<>>)
                     /\ UNCHANGED <<messages, nextMsg, clock, posted>>
                ELSE /\ resp' = Answer("add_message", h, a, 200, a.user.google_id, cid, <<>>, <<>>)
                     /\ messages' = r.messages
                     /\ nextMsg' = nextMsg + 1
                     /\ clock' = clock + 1
                     /\ posted' = [posted EXCEPT ![cid] = Append(@, [role |-> "user", content |-> <<T(content)>>])]
  /\ UNCHANGED <<call, users, conversations, attendance, nextConv, provider_available, budget, auxVars, req>>

\* GET /chat/messages
GetChatMessages(h) ==
  /\ nreq < budget
  /\ nreq' = nreq + 1
  /\ \E a \in Depends("chat_messages", h) :
       resp' =
          IF a.status # 200 THEN Rejected("chat_messages", h, a)
          ELSE IF UserRows(users, a.user.google_id) = {}
               THEN Answer("chat_messages", h, a, 500, a.user.google_id, None, UserNotFound, <<>>)
               ELSE Answer("chat_messages", h, a, 200, a.user.google_id, None, <<>>,
                           get_messages(messages, UserIdOf(users, a.user.google_id)))
  /\ UNCHANGED <<call, dbVars, provider_available, budget, auxVars, req>>

(***************************************************************************)
(* POST /chat and POST /chat/test                                          *)
(***************************************************************************)
Respond(r, status) ==
  [r EXCEPT !.pc = "responded", !.status = status, !.trace = Append(@, "RESPONDED")]

\* the request arrives and the route's dependencies are resolved
ChatRequest(ep, h, m, cid) ==
  /\ req.pc \in {"idle", "responded"}
  /\ nreq < budget
  /\ nreq' = nreq + 1
  /\ ep = "chat_test" => cid = None
  /\ \E a \in Depends(ep, h) :
     LET r == [IdleReq EXCEPT !.ep = ep, !.token_ok = TokenOk(h), !.message = m,
                              !.conversation_id = cid, !.trace = <<"RECEIVED">>]
     IN req' = IF a.status # 200
               THEN Respond([IdleReq EXCEPT !.ep = ep, !.trace = <<"RECEIVED">>], a.status)
               ELSE IF ep = "chat"
               THEN [r EXCEPT !.pc = "authenticated", !.google_id = a.user.google_id,
                              !.trace = Append(@, "AUTHENTICATED")]
               ELSE [r EXCEPT !.pc = "authenticated"]
  /\ UNCHANGED <<call, dbVars, provider_available, budget, auxVars, resp>>

\* chat_endpoint up to the call of get_llm_response_with_supabase: get_user_id,
\* then the user message is stored (the import of _conversations_store fails,
\* so without a conversation_id the message goes to add_message)
ChatStoreUser_noStore ==
  /\ req.pc = "authenticated"
  /\ req.ep = "chat"
  /\ IF UserRows(users, req.google_id) = {}
     THEN req' = Respond(req, 500)
     ELSE req' = [req EXCEPT !.pc = "user_stored", !.user_id = UserIdOf(users, req.google_id)]
  /\ UNCHANGED <<dbVars, call, provider_available, budget, auxVars, resp, nreq>>
ChatStoreUser ==
  /\ req.pc = "authenticated"
  /\ req.ep = "chat"
  /\ IF UserRows(users, req.google_id) = {}
     THEN /\ req' = Respond(req, 500)
          /\ UNCHANGED <<messages, nextMsg, clock, posted>>
     ELSE LET user_id == UserIdOf(users, req.google_id)
              r == IF req.conversation_id # None
                   THEN add_message_to_conversation(messages, conversations, req.conversation_id,
                                                    "user", <<T(req.message)>>, nextMsg + 1, clock + 1)
                   ELSE [raised |-> NoError,
                         messages |-> add_message(messages, user_id, "user", <<T(req.message)>>,
                                                  nextMsg + 1, clock + 1)]
          IN IF r.raised # NoError
             THEN /\ req' = Respond([req EXCEPT !.user_id = user_id], 500)
                  /\ UNCHANGED <<messages, nextMsg, clock, posted>>
             ELSE /\ req' = [req EXCEPT !.pc = "user_stored", !.user_id = user_id,
                                        !.writes = @ + 1, !.trace = Append(@, "WRITE_USER")]
                  /\ messages' = r.messages
                  /\ nextMsg' = nextMsg + 1
                  /\ clock' = clock + 1
                  /\ posted' = IF req.conversation_id # None
                               THEN [posted EXCEPT ![req.conversation_id] =
                                       Append(@, [role |-> "user", content |-> <<T(req.message)>>])]
                               ELSE posted
  /\ UNCHANGED <<call, users, conversations, attendance, nextConv, provider_available, budget, auxVars, resp, nreq>>

\* chat_memory.add_message, called when user_id is given
MemoryWrite(r, role, content, event) ==
  IF r.user_id # NoUserId
  THEN /\ messages' = add_message(messages, r.user_id, role, content, nextMsg + 1, clock + 1)
       /\ nextMsg' = nextMsg + 1
       /\ clock' = clock + 1
       /\ req' = [r EXCEPT !.writes = @ + 1, !.trace = Append(@, event)]
  ELSE /\ req' = r
       /\ UNCHANGED <<messages, nextMsg, clock>>

\* get_llm_response_with_supabase up to detect_intent; without a provider the
\* except branch builds the reply
ChatDetectIntent ==
  /\ \/ req.pc = "user_stored"
     \/ req.pc = "authenticated" /\ req.ep = "chat_test"
  /\ IF ~provider_available
     THEN MemoryWrite([req EXCEPT !.pc = "replied",
                                  !.reply = <<S("Error: "), S("LLM provider is not available")>>,
                                  !.trace = Append(@, "ERROR_REPLY")],
                      "ai", <<S("Error: "), S("LLM provider is not available")>>, "MEMORY_AI")
     ELSE /\ IF req.user_id # NoUserId
             THEN /\ messages' = add_message(messages, req.user_id, "user", <<T(req.message)>>,
                                             nextMsg + 1, clock + 1)
                  /\ nextMsg' = nextMsg + 1
                  /\ clock' = clock + 1
                  /\ req' = [req EXCEPT !.pc = "intent_detected", !.writes = @ + 1,
                                        !.intent = detect_intent(req.message),
                                        !.trace = @ \o <<"MEMORY_USER", "INTENT_DETECTED">>]
             ELSE /\ req' = [req EXCEPT !.pc = "intent_detected",
                                        !.intent = detect_intent(req.message),
                                        !.trace = Append(@, "INTENT_DETECTED")]
                  /\ UNCHANGED <<messages, nextMsg, clock>>
  /\ UNCHANGED <<call, users, conversations, attendance, nextConv, posted, provider_available, budget, auxVars, resp, nreq>>

\* what the tool function of the request can return when it is called
ToolReturns(tool_name, r, dbok) ==
  CASE tool_name = "get_study_material" -> StudyReturns
    [] tool_name = "get_career_insights" -> CareerReturns
    [] tool_name = "mark_attendance" ->
         {mark_attendance_ret(extract_course_name(r.message), r.user_id, dbok)}
    [] tool_name = "get_attendance_records" ->
         {get_attendance_records(attendance, r.user_id, extract_course_name(r.message), dbok)}
    [] tool_name = "get_unread_emails" -> UnreadReturns
    [] tool_name = "draft_email" -> DraftReturns

\* the forced tool call; both routes pass google_access_token = None
ChatDispatch(dbok) ==
  /\ req.pc = "intent_detected"
  /\ LET tool_name == SelectTool(req.intent, req.message)
         called == ToolFunctionCalled(tool_name, None, req.user_id, req.google_id)
     IN \E returned \in (IF called THEN ToolReturns(tool_name, req, dbok) ELSE {NoResult}) :
          /\ req' = [req EXCEPT !.pc = "tool_dispatched",
                                !.tool_name = tool_name,
                                !.tool_label = ToolLabel(req.intent, req.message),
                                !.returned = returned,
                                !.tool_result = execute_tool(tool_name, None, req.user_id,
                                                             req.google_id, returned),
                                !.execCalls = @ + 1,
                                !.trace = Append(@, "TOOL_DISPATCHED")]
          /\ attendance' = IF called /\ tool_name = "mark_attendance" /\ dbok
                           THEN Append(attendance,
                                       mark_attendance_row(extract_course_name(req.message), req.user_id, clock))
                           ELSE attendance
  /\ UNCHANGED <<call, users, conversations, messages, nextConv, nextMsg, clock, posted,
                 provider_available, budget, auxVars, resp, nreq>>

\* process_tool_results, then the reply goes to the chat memory
ChatFormat(llm_ok) ==
  /\ req.pc = "tool_dispatched"
  /\ LET p == process_tool_results(req.tool_label, req.tool_result, req.message, llm_ok)
     IN MemoryWrite([req EXCEPT !.pc = "replied", !.reply = p.reply,
                                !.llmCalls = @ + p.llm, !.trace = Append(@, p.state)],
                    "ai", p.reply, "MEMORY_AI")
  /\ UNCHANGED <<call, users, conversations, attendance, nextConv, posted, provider_available, budget, auxVars, resp, nreq>>

\* chat_endpoint after get_llm_response_with_supabase returned: the reply is
\* stored and the response sent; /chat/test sends it at once
ChatPersist(dbok) ==
  /\ req.pc = "replied"
  /\ IF req.ep = "chat_test"
     THEN /\ req' = Respond(req, 200)
          /\ UNCHANGED <<messages, nextMsg, clock, posted>>
     ELSE LET r == IF ~dbok THEN [raised |-> <<"d","a","t","a","b","a","s","e"," ","e","r","r","o","r">>, messages |-> messages]
                   ELSE IF req.conversation_id # None
                   THEN add_message_to_conversation(messages, conversations, req.conversation_id,
                                                    "ai", req.reply, nextMsg + 1, clock + 1)
                   ELSE [raised |-> NoError,
                         messages |-> add_message(messages, req.user_id, "ai", req.reply,
                                                  nextMsg + 1, clock + 1)]
          IN IF r.raised # NoError
             THEN /\ req' = Respond([req EXCEPT !.trace = Append(@, "PERSIST_FAILED")], 500)
                  /\ UNCHANGED <<messages, nextMsg, clock, posted>>
             ELSE /\ req' = Respond([req EXCEPT !.writes = @ + 1,
                                                !.trace = @ \o <<"WRITE_AI", "PERSISTED">>], 200)
                  /\ messages' = r.messages
                  /\ nextMsg' = nextMsg + 1
                  /\ clock' = clock + 1
                  /\ posted' = IF req.conversation_id # None
                               THEN [posted EXCEPT ![req.conversation_id] =
                                       Append(@, [role |-> "ai", content |-> req.reply])]
                               ELSE posted
  /\ UNCHANGED <<call, users, conversations, attendance, nextConv, provider_available, budget, auxVars, resp, nreq>>

(***************************************************************************)
(* Specification of the service                                            *)
(***************************************************************************)
Next ==
  \/ \E ep \in OtherRoutes, h \in RequestHeaders : OtherRequest(ep, h)
  \/ \E h \in RequestHeaders, t \in Titles : CreateConversation(h, t)
  \/ \E h \in RequestHeaders, c \in ConvIds : DeleteConversation(h, c)
  \/ \E h \in RequestHeaders, c \in ConvIds, t \in Titles : UpdateConversation(h, c, t)
  \/ \E h \in RequestHeaders, c \in ConvIds : GetConversationMessages(h, c)
  \/ \E h \in RequestHeaders, c \in ConvIds, x \in PostContents : AddMessage(h, c, x)
  \/ \E h \in RequestHeaders : GetChatMessages(h)
  \/ \E ep \in {"chat", "chat_test"}, h \in RequestHeaders, m \in ChatMessages,
        c \in ConvIds \cup {None} : ChatRequest(ep, h, m, c)
  \/ ChatStoreUser
  \/ ChatDetectIntent
  \/ \E dbok \in BOOLEAN : ChatDispatch(dbok)
  \/ \E llm_ok \in BOOLEAN : ChatFormat(llm_ok)
  \/ \E dbok \in BOOLEAN : ChatPersist(dbok)

Spec == Init /\ [][Next]_vars

(***************************************************************************)
(* Specification of the conversation routes alone, on an empty database    *)
(***************************************************************************)
InitConv ==
  /\ InitProcess
  /\ AuxIdle
  /\ budget = MaxConvRequests
  /\ conversations = {}
  /\ nextConv = 0

NextConv ==
  \/ \E h \in RequestHeaders, t \in Titles : CreateConversation(h, t)
  \/ \E h \in RequestHeaders, c \in ConvIds : DeleteConversation(h, c)
  \/ \E h \in RequestHeaders, c \in ConvIds, t \in Titles : UpdateConversation(h, c, t)
  \/ \E h \in RequestHeaders, c \in ConvIds : GetConversationMessages(h, c)
  \/ \E h \in RequestHeaders, c \in ConvIds, x \in PostContents : AddMessage(h, c, x)

SpecConv == InitConv /\ [][NextConv]_vars

(***************************************************************************)
(* Specification of the functions on their own                             *)
(***************************************************************************)
Vocabulary ==
  { <<"m","a","r","k">>, <<"a","t","t","e","n","d","a","n","c","e">>, <<"P","r","e","s","e","n","t">>, <<"j","o","b">>, <<"C","A","R","E","E","R">>, <<"m","a","r","k","e","t">>,
    <<"e","x","a","m">>, <<"e","m","a","i","l">>, <<"h","e","l","l","o">>, <<"c","o","u","r","s","e","w","o","r","k">>, <<"w","h","a","t">>, <<"i","s">> }

WordLists == UNION { [1..n -> Vocabulary] : n \in 1..MaxWords }
Messages == { Join(ws) : ws \in WordLists }

\* one evaluation of detect_intent
Classify(m) ==
  /\ call = NoCall
  /\ call' = [fn |-> "detect_intent", message |-> m, ret |-> detect_intent(m)]
  /\ UNCHANGED <<dbVars, provider_available, budget, auxVars, req, resp, nreq>>

\* what a tool function can hand to execute_tool
FnToolReturns(tool_name, user_id) ==
  {[raised |-> "tool function raised"]} \cup
  CASE tool_name = "get_study_material" -> StudyReturns
    [] tool_name = "get_career_insights" -> CareerReturns
    [] tool_name = "mark_attendance" ->
         { mark_attendance_ret(<<"G","e","n","e","r","a","l">>, user_id, dbok) : dbok \in BOOLEAN }
    [] tool_name = "get_attendance_records" ->
         { get_attendance_records(<<mark_attendance_row(<<"G","e","n","e","r","a","l">>, 1, 0)>>, user_id, <<>>, dbok) :
             dbok \in BOOLEAN }
    [] tool_name = "get_unread_emails" -> UnreadReturns
    [] tool_name = "draft_email" -> DraftReturns
    [] OTHER -> {}

\* one call of execute_tool
ExecuteTool(tool_name, google_access_token, user_id, google_id) ==
  /\ call = NoCall
  /\ \E returned \in FnToolReturns(tool_name, user_id) :
       call' = [fn |-> "execute_tool", tool_name |-> tool_name,
                google_access_token |-> google_access_token,
                user_id |-> user_id, google_id |-> google_id, returned |-> returned,
                ret |-> execute_tool(tool_name, google_access_token, user_id, google_id, returned)]
  /\ UNCHANGED <<dbVars, provider_available, budget, auxVars, req, resp, nreq>>

\* one call of verify_supabase_token
Verify(h, pyjwt) ==
  /\ call = NoCall
  /\ call' = [fn |-> "verify_supabase_token", authorization |-> h, pyjwt |-> pyjwt,
              ret |-> verify_supabase_token(h, pyjwt)]
  /\ UNCHANGED <<dbVars, provider_available, budget, auxVars, req, resp, nreq>>

\* one call of get_llm_provider() in a process configured with LLM_PROVIDER
\* and the API keys
GetLLMProvider(LLM_PROVIDER, keys, installed) ==
  /\ call = NoCall
  /\ call' = [fn |-> "get_llm_provider", LLM_PROVIDER |-> LLM_PROVIDER, keys |-> keys,
              installed |-> installed,
              ret |-> get_llm_provider(None, LLM_PROVIDER, keys, installed)]
  /\ UNCHANGED <<dbVars, provider_available, budget, auxVars, req, resp, nreq>>

Return ==
  /\ call # NoCall
  /\ call' = NoCall
  /\ UNCHANGED <<dbVars, provider_available, budget, auxVars, req, resp, nreq>>

NextFn ==
  \/ \E m \in Messages : Classify(m)
  \/ \E n \in ToolNames \cup {"send_sms"}, tok \in {None, "ya29.token"},
        u \in {NoUserId, 1}, g \in {None, "g1"} : ExecuteTool(n, tok, u, g)
  \/ \E h \in Headers, v \in PyJWTVersions : Verify(h, v)
  \/ \E p \in ProviderNames \cup {"claude", ""}, keys \in SUBSET ProviderNames,
        installed \in {ProviderNames, ProviderNames \ {"openai"}, {}} :
       GetLLMProvider(p, keys, installed)
  \/ Return

SpecFn == Init /\ [][NextFn]_vars

(***************************************************************************)
(* The Google OAuth flow: GET /auth/google-auth-url issues a state,        *)
(* GET /auth/google-callback redeems it                                    *)
(***************************************************************************)
\* largest number of states issued in one behaviour of SpecOAuth
MaxStates == 1
\* largest number of callbacks in one behaviour of SpecOAuth
MaxCallbacks == 2
\* largest value of the clock, in seconds
MaxNow == 602

\* secrets.token_urlsafe(32): a token that was never handed out before
StateNames == <<"s1", "s2", "s3", "s4">>
StateTokens == { StateNames[i] : i \in 1..MaxStates }
\* the clock advances by five minutes or a second more
Ticks == {300, 301}
\* seconds a state stays valid
StateTTL == 600

\* datetime.isoformat() and datetime.fromisoformat(), on minutes and seconds
isoformat(t) == <<t \div 60, t % 60>>
fromisoformat(s) == s[1] * 60 + s[2]

Remove(states, state) == [s \in DOMAIN states \ {state} |-> states[s]]

\* (dt.utcnow() - state_created).total_seconds() > 600
StateExpired_never(created_at, utcnow) == FALSE
StateExpired(created_at, utcnow) == utcnow - fromisoformat(created_at) > StateTTL

\* user_data["google_id"] != user["google_id"]
StateMismatch_never(user_data, user) == FALSE
StateMismatch(user_data, user) == user_data.google_id # user.google_id

\* the except branches of google_oauth_callback: the state is deleted if it
\* is in the store
Cleanup_keep(states, state) == states
Cleanup(states, state) == IF state \in DOMAIN states THEN Remove(states, state) ELSE states

\* what Google answers to the token-exchange request: tokens, a status other
\* than 200, a body that is no JSON, a JSON body with an error, or no answer
\* at all (requests.post raises)
GoogleAnswers == {"tokens", "status", "not_json", "error", "raises"}

\* the handler of GET /auth/google-callback, given the verified user
google_oauth_callback(states, state, user, utcnow, credentials, google) ==
  IF state \notin DOMAIN states
  THEN [status |-> 400, detail |-> "Invalid or expired state parameter",
        states |-> Cleanup(states, state), posts |-> 0, success |-> FALSE]
  ELSE IF StateMismatch(states[state], user)
  THEN [status |-> 400, detail |-> "State parameter does not match current user",
        states |-> Cleanup(states, state), posts |-> 0, success |-> FALSE]
  ELSE IF StateExpired(states[state].created_at, utcnow)
  THEN [status |-> 400, detail |-> "State parameter has expired",
        states |-> Cleanup(Remove(states, state), state), posts |-> 0, success |-> FALSE]
  ELSE IF ~credentials
  THEN [status |-> 500, detail |-> "Google OAuth credentials not configured",
        states |-> Cleanup(states, state), posts |-> 0, success |-> FALSE]
  ELSE CASE google = "tokens" ->
              [status |-> 200, detail |-> "", states |-> Remove(states, state),
               posts |-> 1, success |-> TRUE]
         [] google = "status" ->
              [status |-> 400, detail |-> "Google token exchange failed",
               states |-> Cleanup(states, state), posts |-> 1, success |-> FALSE]
         [] google = "not_json" ->
              [status |-> 400, detail |-> "Invalid response from Google",
               states |-> Cleanup(states, state), posts |-> 1, success |-> FALSE]
         [] google = "error" ->
              [status |-> 400, detail |-> "Token exchange failed",
               states |-> Cleanup(states, state), posts |-> 1, success |-> FALSE]
         [] google = "raises" ->
              [status |-> 500, detail |-> "OAuth callback failed",
               states |-> Cleanup(states, state), posts |-> 1, success |-> FALSE]

\* the callers of the OAuth routes: no token, the user g1, the user g2
OAuthHeaders == { h \in RequestHeaders : h.kind = "bearer" => (h.token.decodable /\ h.token.sub # "g3") }

\* GET /auth/google-auth-url
GetGoogleAuthUrl(h) ==
  /\ oauth.issued < MaxStates
  /\ \E a \in Depends("auth_google_auth_url", h) :
       /\ a.status = 200
       /\ LET state == StateNames[oauth.issued + 1]
          IN /\ oauth_states' = oauth_states @@
                  (state :> [google_id |-> a.user.google_id, email |-> a.user.email,
                             created_at |-> isoformat(now)])
             /\ oauth' = [oauth EXCEPT !.issued = @ + 1,
                                       !.exchanged = @ @@ (state :> 0)]
  /\ UNCHANGED <<lateVars, call, dbVars, provider_available, budget, req, resp, nreq,
                 google_credentials, now, att, docVars, raceVars>>

\* GET /auth/google-callback?code=..&state=..
GoogleCallback(h, state, google) ==
  /\ oauth.callbacks < MaxCallbacks
  /\ \E a \in Depends("auth_google_callback", h) :
       IF a.status # 200
       THEN /\ oauth' = [oauth EXCEPT !.callbacks = @ + 1,
                                      !.cb = [invoked |-> FALSE, state |-> state, status |-> a.status]]
            /\ UNCHANGED oauth_states
       ELSE LET r == google_oauth_callback(oauth_states, state, a.user, now,
                                           google_credentials, google)
                present == state \in DOMAIN oauth_states
            IN /\ oauth_states' = r.states
               /\ oauth' = [oauth EXCEPT
                     !.callbacks = @ + 1,
                     !.posts = @ + r.posts,
                     !.exchanged = IF r.success THEN [@ EXCEPT ![state] = @ + 1] ELSE @,
                     !.cb = [invoked |-> TRUE, state |-> state, status |-> r.status,
                             detail |-> r.detail, present |-> present,
                             issuer |-> IF present THEN oauth_states[state].google_id ELSE None,
                             google_id |-> a.user.google_id,
                             age |-> IF present
                                     THEN now - fromisoformat(oauth_states[state].created_at)
                                     ELSE 0,
                             posts |-> r.posts, success |-> r.success]]
  /\ UNCHANGED <<lateVars, call, dbVars, provider_available, budget, req, resp, nreq,
                 google_credentials, now, att, docVars, raceVars>>

\* time passes
Tick(d) ==
  /\ now + d <= MaxNow
  /\ now' = now + d
  /\ UNCHANGED <<lateVars, call, dbVars, provider_available, budget, req, resp, nreq,
                 google_credentials, oauth_states, oauth, att, docVars, raceVars>>

InitOAuth ==
  /\ InitProcess
  /\ budget = 0
  /\ conversations = {}
  /\ nextConv = 0
  /\ google_credentials \in BOOLEAN
  /\ oauth_states = EmptyMap
  /\ now = 0
  /\ oauth = [issued |-> 0, exchanged |-> EmptyMap, posts |-> 0, callbacks |-> 0, cb |-> NoCallback]
  /\ AttIdle
  /\ DocsIdle
  /\ RaceIdle
  /\ LateIdle

NextOAuth ==
  \/ \E h \in OAuthHeaders : GetGoogleAuthUrl(h)
  \/ \E h \in OAuthHeaders, s \in StateTokens, g \in GoogleAnswers : GoogleCallback(h, s, g)
  \/ \E d \in Ticks : Tick(d)

SpecOAuth == InitOAuth /\ [][NextOAuth]_vars

(***************************************************************************)
(* The attendance tools on their own, called with a user_id string         *)
(***************************************************************************)
\* largest number of calls of the attendance tools in one behaviour of SpecAtt
MaxAttCalls == 2

Digits == <<"0", "1", "2", "3", "4", "5", "6", "7", "8", "9">>

\* whether int(s) returns: a non-empty string of decimal digits (signs, blanks
\* and underscores are not among the inputs); int(s) raises ValueError otherwise
IsNumeric(s) == Len(s) > 0 /\ \A i \in 1..Len(s) : IndexIn(s[i], Digits) > 0

\* int(s)
RECURSIVE int(_)
int(s) == IF s = <<>> THEN 0
          ELSE 10 * int(SubSeq(s, 1, Len(s) - 1)) + (IndexIn(s[Len(s)], Digits) - 1)

InvalidUserId == "Invalid user_id format. Must be numeric."

\* mark_attendance(course_name, user_id): the dict it returns and the table
\* after it
mark_attendance_always(att_table, course_name, user_id, dbok, marked_at) ==
  [ret |-> mark_attendance_ret(course_name, 0, TRUE),
   attendance |-> Append(att_table, mark_attendance_row(course_name, 0, marked_at))]
mark_attendance(att_table, course_name, user_id, dbok, marked_at) ==
  IF ~IsNumeric(user_id)
  THEN [ret |-> [success |-> FALSE, error |-> InvalidUserId], attendance |-> att_table]
  ELSE [ret |-> mark_attendance_ret(course_name, int(user_id), dbok),
        attendance |-> IF dbok
                       THEN Append(att_table, mark_attendance_row(course_name, int(user_id), marked_at))
                       ELSE att_table]

\* get_attendance_records(user_id, course_name)
get_attendance_records_str(att_table, user_id, course_name, dbok) ==
  IF ~IsNumeric(user_id)
  THEN [success |-> FALSE, error |-> InvalidUserId, records |-> <<>>]
  ELSE get_attendance_records(att_table, int(user_id), course_name, dbok)

UserIdStrings == { <<"1">>, <<"2">>, <<"0","1">>, <<"a","b","c">>, <<"1","a">>, <<>> }
CourseNames == { <<"C","S","1","0","1">>, <<"M","a","t","h">> }

\* one call of mark_attendance; the insert happens d seconds into the call
MarkAttendance(course_name, user_id, dbok, d) ==
  /\ att.calls < MaxAttCalls
  /\ LET r == mark_attendance(attendance, course_name, user_id, dbok, clock + d)
     IN /\ attendance' = r.attendance
        /\ call' = [fn |-> "mark_attendance", course_name |-> course_name, user_id |-> user_id,
                    called_at |-> clock, before |-> attendance, ret |-> r.ret]
        /\ att' = [calls |-> att.calls + 1,
                   marks |-> IF r.ret.success
                             THEN Append(att.marks, [user_id |-> user_id, course_name |-> course_name,
                                                     called_at |-> clock])
                             ELSE att.marks]
  /\ clock' = clock + d
  /\ UNCHANGED <<lateVars, users, conversations, messages, nextConv, nextMsg, posted,
                 provider_available, budget, req, resp, nreq, oauthVars, docVars, raceVars>>

\* one call of get_attendance_records
GetAttendanceRecords(user_id, course_name, dbok) ==
  /\ att.calls < MaxAttCalls
  /\ call' = [fn |-> "get_attendance_records", user_id |-> user_id, course_name |-> course_name,
              before |-> attendance,
              ret |-> get_attendance_records_str(attendance, user_id, course_name, dbok)]
  /\ att' = [att EXCEPT !.calls = @ + 1]
  /\ UNCHANGED <<lateVars, dbVars, provider_available, budget, req, resp, nreq, oauthVars, docVars, raceVars>>

InitAtt ==
  /\ InitProcess
  /\ budget = 0
  /\ conversations = {}
  /\ nextConv = 0
  /\ AuxIdle

NextAtt ==
  \/ \E c \in CourseNames, u \in UserIdStrings, dbok \in BOOLEAN, d \in {0, 1} :
       MarkAttendance(c, u, dbok, d)
  \/ \E u \in UserIdStrings, c \in CourseNames \cup {<<>>}, dbok \in BOOLEAN :
       GetAttendanceRecords(u, c, dbok)

SpecAtt == InitAtt /\ [][NextAtt]_vars

(***************************************************************************)
(* POST /documents/upload                                                  *)
(***************************************************************************)
\* largest number of uploads in one behaviour of SpecDocs
MaxUploads == 1

AllowedTypes == {"application/pdf",
                 "application/vnd.openxmlformats-officedocument.wordprocessingml.document"}
ContentTypes == AllowedTypes \cup {"text/plain"}
FileNames == { <<"a",".","p","d","f">>, <<"a",".","P","D","F">>, <<"b",".","d","o","c","x">>, <<"c",".","t","x","t">>, <<"n","o","t","e","s">>, <<"d",".","p","d","f",".","e","x","e">> }

\* file.filename.split('.')[-1].lower()
file_extension(filename) ==
  LET dots == { i \in 1..Len(filename) : filename[i] = "." }
      last == IF dots = {} THEN 0 ELSE CHOOSE i \in dots : \A j \in dots : j <= i
  IN Lower(SubSeq(filename, last + 1, Len(filename)))

\* the extensions upload_document extracts text from
Extractable_any(ext) == TRUE
Extractable(ext) == ext \in { <<"p","d","f">>, <<"d","o","c","x">> }

\* upload_document, given the verified user: file is what the client sent
\* (content type, filename, number of chunks of its text), world is what the
\* collaborators do (storage, OPENAI_API_KEY, embeddings, insert)
upload_document(stor, docs, us, user, file, world, path) ==
  LET rejected(status, detail, stored) ==
        [status |-> status, detail |-> detail,
         storage |-> IF stored THEN stor \cup {path} ELSE stor,
         documents |-> docs, stored |-> IF stored THEN 1 ELSE 0,
         embeds |-> 0, inserted |-> 0]
  IN IF file.content_type \notin AllowedTypes
     THEN rejected(400, "File type not allowed. Only PDF and DOCX files are supported.", FALSE)
     ELSE IF UserRows(us, user.google_id) = {}
     THEN rejected(500, "Upload failed: Failed to get user", FALSE)
     ELSE IF ~world.storage_ok
     THEN rejected(500, "Storage upload failed", FALSE)
     ELSE IF ~Extractable(file_extension(file.filename))
     THEN rejected(400, "Unsupported file type", TRUE)
     ELSE IF file.chunks = 0
     THEN rejected(400, "No text content could be extracted from the file", TRUE)
     ELSE IF ~world.openai_key
     THEN rejected(500, "OpenAI API key not configured", TRUE)
     ELSE IF ~world.embed_ok
     THEN [rejected(500, "Upload failed", TRUE) EXCEPT !.embeds = 1]
     ELSE IF ~world.insert_ok
     THEN [rejected(500, "Upload failed", TRUE) EXCEPT !.embeds = file.chunks]
     ELSE [status |-> 200, detail |-> "File processed and saved successfully",
           storage |-> stor \cup {path},
           documents |-> docs \cup
              { [user_id |-> UserIdOf(us, user.google_id), file_path |-> path,
                 original_file_name |-> file.filename, chunk_index |-> i - 1,
                 total_chunks |-> file.chunks] : i \in 1..file.chunks },
           stored |-> 1, embeds |-> file.chunks, inserted |-> file.chunks]

Worlds == [storage_ok : BOOLEAN, openai_key : BOOLEAN, embed_ok : BOOLEAN, insert_ok : BOOLEAN]
Files == [content_type : ContentTypes, filename : FileNames, chunks : {0, 2}]

\* POST /documents/upload
UploadDocument(h, file, world) ==
  /\ upload.n < MaxUploads
  /\ \E a \in Depends("documents_upload", h) :
       IF a.status # 200
       THEN /\ upload' = [n |-> upload.n + 1, done |-> TRUE, handled |-> FALSE, file |-> file,
                          status |-> a.status, stored |-> 0, embeds |-> 0, inserted |-> 0]
            /\ UNCHANGED <<storage, documents>>
       ELSE LET path == <<a.user.google_id, upload.n + 1, file_extension(file.filename)>>
                r == upload_document(storage, documents, users, a.user, file, world, path)
            IN /\ storage' = r.storage
               /\ documents' = r.documents
               /\ upload' = [n |-> upload.n + 1, done |-> TRUE, handled |-> TRUE, file |-> file,
                             status |-> r.status, stored |-> r.stored, embeds |-> r.embeds,
                             inserted |-> r.inserted]
  /\ UNCHANGED <<lateVars, call, dbVars, provider_available, budget, req, resp, nreq, oauthVars, att, raceVars>>

InitDocs ==
  /\ InitProcess
  /\ budget = 0
  /\ conversations = {}
  /\ nextConv = 0
  /\ AuxIdle

NextDocs ==
  \E h \in RequestHeaders, f \in Files, w \in Worlds : UploadDocument(h, f, w)

SpecDocs == InitDocs /\ [][NextDocs]_vars

(***************************************************************************)
(* db_client statement by statement: every execute_query is a connection   *)
(* and a commit of its own, so the statements of requests handled by        *)
(* different workers interleave                                            *)
(***************************************************************************)
\* largest number of concurrently handled db_client calls
MaxProcs == 2

\* the tables are created outside this repository:
\* messages.conversation_id may be no foreign key, a foreign key that
\* restricts the delete, or one that cascades
ForeignKeys == {"none", "restrict", "cascade"}

Procs == 1..MaxProcs

MessagesOf(msgs, conversation_id) == { m \in msgs : m.conversation_id = conversation_id }

\* a request reaches delete_conversation(conversation_id, google_id)
StartDelete(conversation_id, google_id) ==
  /\ Len(procs) < MaxProcs
  /\ procs' = Append(procs, [op |-> "delete_conversation", pc |-> "start",
                             conversation_id |-> conversation_id, google_id |-> google_id,
                             deleted |-> 0])
  /\ UNCHANGED <<lateVars, call, dbVars, provider_available, budget, req, resp, nreq,
                 oauthVars, att, docVars, foreign_key>>

\* a request reaches add_message_to_conversation(conversation_id, role, content)
StartAdd(conversation_id, content) ==
  /\ Len(procs) < MaxProcs
  /\ procs' = Append(procs, [op |-> "add_message_to_conversation", pc |-> "start",
                             conversation_id |-> conversation_id, content |-> content,
                             user_id |-> NoUserId])
  /\ UNCHANGED <<lateVars, call, dbVars, provider_available, budget, req, resp, nreq,
                 oauthVars, att, docVars, foreign_key>>

\* delete_conversation: verify_query
DeleteVerify(p) ==
  /\ p \in DOMAIN procs
  /\ procs[p].op = "delete_conversation"
  /\ procs[p].pc = "start"
  /\ procs' = [procs EXCEPT ![p].pc =
                 IF OwnsConversation(conversations, users, procs[p].conversation_id, procs[p].google_id)
                 THEN "verified" ELSE "raised"]
  /\ UNCHANGED <<lateVars, call, dbVars, provider_available, budget, req, resp, nreq,
                 oauthVars, att, docVars, foreign_key>>

\* delete_conversation: DELETE FROM messages WHERE conversation_id = %s
DeleteMessages(p) ==
  /\ p \in DOMAIN procs
  /\ procs[p].op = "delete_conversation"
  /\ procs[p].pc = "verified"
  /\ messages' = messages \ MessagesOf(messages, procs[p].conversation_id)
  /\ procs' = [procs EXCEPT ![p].pc = "messages_deleted",
                 ![p].deleted = Cardinality(MessagesOf(messages, procs[p].conversation_id))]
  /\ UNCHANGED <<lateVars, call, users, conversations, attendance, nextConv, nextMsg, clock, posted,
                 provider_available, budget, req, resp, nreq,
                 oauthVars, att, docVars, foreign_key>>

\* delete_conversation: DELETE FROM conversations WHERE id = %s
DeleteConversationRow(p) ==
  /\ p \in DOMAIN procs
  /\ procs[p].op = "delete_conversation"
  /\ procs[p].pc = "messages_deleted"
  /\ LET cid == procs[p].conversation_id
         refused == foreign_key = "restrict" /\ MessagesOf(messages, cid) # {}
     IN IF ~refused
        THEN /\ conversations' = { c \in conversations : c.id # cid }
             /\ messages' = IF foreign_key = "cascade"
                            THEN messages \ MessagesOf(messages, cid)
                            ELSE messages
             /\ procs' = [procs EXCEPT ![p].pc = "returned"]
        ELSE /\ procs' = [procs EXCEPT ![p].pc = "raised"]
             /\ UNCHANGED <<conversations, messages>>
  /\ UNCHANGED <<lateVars, call, users, attendance, nextConv, nextMsg, clock, posted,
                 provider_available, budget, req, resp, nreq,
                 oauthVars, att, docVars, foreign_key>>

\* add_message_to_conversation: SELECT user_id FROM conversations WHERE id = %s
AddSelect(p) ==
  /\ p \in DOMAIN procs
  /\ procs[p].op = "add_message_to_conversation"
  /\ procs[p].pc = "start"
  /\ LET result == { c \in conversations : c.id = procs[p].conversation_id }
     IN procs' = IF result = {}
                 THEN [procs EXCEPT ![p].pc = "raised"]
                 ELSE [procs EXCEPT ![p].pc = "selected",
                                    ![p].user_id = (CHOOSE c \in result : TRUE).user_id]
  /\ UNCHANGED <<lateVars, call, dbVars, provider_available, budget, req, resp, nreq,
                 oauthVars, att, docVars, foreign_key>>

\* add_message_to_conversation: INSERT INTO messages
AddInsert(p) ==
  /\ p \in DOMAIN procs
  /\ procs[p].op = "add_message_to_conversation"
  /\ procs[p].pc = "selected"
  /\ LET cid == procs[p].conversation_id
         refused == foreign_key # "none" /\ \A c \in conversations : c.id # cid
     IN IF refused
        THEN /\ procs' = [procs EXCEPT ![p].pc = "raised"]
             /\ UNCHANGED <<messages, nextMsg, clock>>
        ELSE /\ messages' = messages \cup
                  {MessageRow(nextMsg + 1, cid, procs[p].user_id, "user",
                              <<T(procs[p].content)>>, clock + 1)}
             /\ nextMsg' = nextMsg + 1
             /\ clock' = clock + 1
             /\ procs' = [procs EXCEPT ![p].pc = "returned"]
  /\ UNCHANGED <<lateVars, call, users, conversations, attendance, nextConv, posted,
                 provider_available, budget, req, resp, nreq,
                 oauthVars, att, docVars, foreign_key>>

\* the database holds one conversation of g1, with a message or without
InitRace ==
  /\ call = NoCall
  /\ users = {[id |-> 1, google_id |-> "g1"], [id |-> 2, google_id |-> "g2"]}
  /\ conversations = {[id |-> ConvNames[1], user_id |-> 1, title |-> "New Chat"]}
  /\ nextConv = 1
  /\ \/ messages = {} /\ nextMsg = 0 /\ clock = 0
     \/ /\ messages = {MessageRow(1, ConvNames[1], 1, "user", <<T(<<"h","i">>)>>, 1)}
        /\ nextMsg = 1
        /\ clock = 1
  /\ attendance = <<>>
  /\ provider_available = TRUE
  /\ budget = 0
  /\ req = IdleReq
  /\ resp = NoResp
  /\ nreq = 0
  /\ posted = [c \in ConvIds |-> <<>>]
  /\ OAuthIdle
  /\ AttIdle
  /\ DocsIdle
  /\ LateIdle
  /\ foreign_key \in ForeignKeys
  /\ procs = <<>>

NextRace ==
  \/ \E c \in ConvIds, g \in {"g1", "g2"} : StartDelete(c, g)
  \/ \E c \in ConvIds, x \in PostContents : StartAdd(c, x)
  \/ \E p \in Procs : DeleteVerify(p)
  \/ \E p \in Procs : DeleteMessages(p)
  \/ \E p \in Procs : DeleteConversationRow(p)
  \/ \E p \in Procs : AddSelect(p)
  \/ \E p \in Procs : AddInsert(p)

SpecRace == InitRace /\ [][NextRace]_vars

(***************************************************************************)
(* get_study_material and db_client.search_documents, as POST /chat and    *)
(* POST /chat/test reach them                                              *)
(***************************************************************************)
\* largest number of searches in one behaviour of SpecSearch
MaxSearches == 1
\* match_count
MatchCount == 4

\* the rows of the table documents: chunks of g1, of g2 and global ones
\* (user_id NULL) of a course or of none
LibraryDocs ==
  { [id |-> 1, user_id |-> 1, course_name |-> "math"],
    [id |-> 2, user_id |-> 2, course_name |-> "math"],
    [id |-> 3, user_id |-> NoUserId, course_name |-> "math"],
    [id |-> 4, user_id |-> NoUserId, course_name |-> "physics"],
    [id |-> 5, user_id |-> NoUserId, course_name |-> None] }

\* LIMIT match_count, the order by similarity being the embedding's
Limit(rows, n) ==
  { r \in SUBSET rows : Cardinality(r) = IF Cardinality(rows) > n THEN n ELSE Cardinality(rows) }

\* the WHERE clause of the search with user filtering
VisibleTo(d, user_id, user_course) ==
  \/ d.user_id = user_id
  \/ d.user_id = NoUserId /\ user_course # None /\ d.course_name = user_course
  \/ d.user_id = NoUserId /\ d.course_name = None

\* search_documents(query_embedding, 0.3, 4, google_id): the sets of rows it
\* can return; above holds the rows whose similarity exceeds the threshold
search_documents(docs, us, google_id, above, dbok) ==
  IF ~dbok THEN {{}}
  ELSE IF google_id # None
  THEN IF UserRows(us, google_id) = {} THEN {{}}
       ELSE LET user == CHOOSE u \in UserRows(us, google_id) : TRUE
            IN Limit({ d \in above : VisibleTo(d, user.id, user.course_name) }, MatchCount)
  ELSE Limit(above, MatchCount)

\* get_study_material(query, user_id = google_id): the sets of chunks its
\* context can quote
get_study_material(docs, us, google_id, above, world) ==
  IF ~world.openai_key \/ ~world.embed_ok THEN {{}}
  ELSE search_documents(docs, us, google_id, above, world.dbok)

SearchWorlds == [openai_key : BOOLEAN, embed_ok : BOOLEAN, dbok : BOOLEAN]

\* a POST /chat or POST /chat/test whose message has study or general intent
SearchStudyMaterial(ep, h, above, world) ==
  /\ search.n < MaxSearches
  /\ \E a \in Depends(ep, h) :
       IF a.status # 200 \/ (ep = "chat" /\ UserRows(users, a.user.google_id) = {})
       THEN search' = [n |-> search.n + 1, done |-> TRUE, ep |-> ep, reached |-> FALSE,
                       status |-> IF a.status # 200 THEN a.status ELSE 500,
                       google_id |-> None, chunks |-> {}]
       ELSE \E chunks \in get_study_material(documents, users, a.user.google_id, above, world) :
              search' = [n |-> search.n + 1, done |-> TRUE, ep |-> ep, reached |-> TRUE,
                         status |-> 200, google_id |-> a.user.google_id,
                         above |-> above, chunks |-> chunks]
  /\ UNCHANGED <<procVars, dbVars, midVars, docreq, unique_google_id, sync, markreq, split>>

InitSearch ==
  /\ call = NoCall
  /\ users = {[id |-> 1, google_id |-> "g1", course_name |-> "math"],
              [id |-> 2, google_id |-> "g2", course_name |-> None]}
  /\ conversations = {}
  /\ messages = {}
  /\ attendance = <<>>
  /\ nextConv = 0
  /\ nextMsg = 0
  /\ clock = 0
  /\ posted = [c \in ConvIds |-> <<>>]
  /\ provider_available = TRUE
  /\ budget = 0
  /\ req = IdleReq
  /\ resp = NoResp
  /\ nreq = 0
  /\ OAuthIdle
  /\ AttIdle
  /\ storage = {}
  /\ documents = LibraryDocs
  /\ upload = NoUpload
  /\ RaceIdle
  /\ LateIdle

NextSearch ==
  \E ep \in {"chat", "chat_test"}, h \in RequestHeaders, above \in SUBSET documents,
     world \in SearchWorlds : SearchStudyMaterial(ep, h, above, world)

SpecSearch == InitSearch /\ [][NextSearch]_vars

(***************************************************************************)
(* DELETE /documents/{id}, GET /documents/{id}, GET /documents/user        *)
(***************************************************************************)
\* largest number of requests in one behaviour of SpecDocAccess
MaxDocRequests == 1

\* the rows of the table documents with the path of their file
StoredDocs == { d @@ [file_path |-> <<"user-documents", d.id>>] : d \in LibraryDocs }
DocumentIds == { d.id : d \in StoredDocs } \cup {9}

\* .eq('id', document_id).single().execute(): the row, or nothing
SingleDoc(docs, document_id) == { d \in docs : d.id = document_id }

\* doc_info['user_id'] != user_id
NotOwner_never(doc_info, user_id) == FALSE
NotOwner(doc_info, user_id) == doc_info.user_id # user_id

\* what the collaborators do: whether single() raises when it finds no row
\* (the client library is not part of the repository), whether the storage
\* removes the file, whether the DELETE succeeds
AccessWorlds == [single_raises : BOOLEAN, storage_ok : BOOLEAN, delete_ok : BOOLEAN]

Refused(status, docs, stor) == [status |-> status, documents |-> docs, storage |-> stor, body |-> {}]

\* delete_document, given the verified user
delete_document(docs, stor, us, user, document_id, world) ==
  IF UserRows(us, user.google_id) = {} THEN Refused(500, docs, stor)
  ELSE LET user_id == UserIdOf(us, user.google_id)
           found == SingleDoc(docs, document_id)
       IN IF found = {}
          THEN Refused(IF world.single_raises THEN 500 ELSE 404, docs, stor)
          ELSE LET doc_info == CHOOSE d \in found : TRUE
                   removed == IF world.storage_ok THEN stor \ {doc_info.file_path} ELSE stor
               IN IF NotOwner(doc_info, user_id) THEN Refused(403, docs, stor)
                  ELSE IF ~world.delete_ok THEN Refused(500, docs, removed)
                  ELSE [status |-> 200, documents |-> docs \ found, storage |-> removed,
                        body |-> {}]

\* get_document, given the verified user
get_document(docs, stor, us, user, document_id, world) ==
  IF UserRows(us, user.google_id) = {} THEN Refused(500, docs, stor)
  ELSE LET user_id == UserIdOf(us, user.google_id)
           found == SingleDoc(docs, document_id)
       IN IF found = {}
          THEN Refused(IF world.single_raises THEN 500 ELSE 404, docs, stor)
          ELSE LET doc_info == CHOOSE d \in found : TRUE
               IN IF NotOwner(doc_info, user_id) /\ doc_info.user_id # NoUserId
                  THEN Refused(403, docs, stor)
                  ELSE [status |-> 200, documents |-> docs, storage |-> stor, body |-> {doc_info}]

\* get_user_documents, given the verified user
get_user_documents(docs, stor, us, user, document_id, world) ==
  IF UserRows(us, user.google_id) = {} THEN Refused(500, docs, stor)
  ELSE LET user_id == UserIdOf(us, user.google_id)
       IN [status |-> 200, documents |-> docs, storage |-> stor,
           body |-> { d \in { x \in docs : x.user_id = user_id } : d.user_id = user_id }]

DocRoutes == {"documents_delete", "documents_get", "documents_user"}

Handler(ep, docs, stor, us, user, document_id, world) ==
  CASE ep = "documents_delete" -> delete_document(docs, stor, us, user, document_id, world)
    [] ep = "documents_get" -> get_document(docs, stor, us, user, document_id, world)
    [] ep = "documents_user" -> get_user_documents(docs, stor, us, user, document_id, world)

\* a request to one of the three routes
DocumentRequest(ep, h, document_id, world) ==
  /\ docreq.n < MaxDocRequests
  /\ \E a \in Depends(ep, h) :
       LET before == [n |-> docreq.n + 1, done |-> TRUE, ep |-> ep, document_id |-> document_id,
                      documents |-> documents, storage |-> storage]
       IN IF a.status # 200
          THEN /\ docreq' = before @@ [handled |-> FALSE, status |-> a.status,
                                        google_id |-> None, body |-> {}]
               /\ UNCHANGED <<storage, documents>>
          ELSE LET r == Handler(ep, documents, storage, users, a.user, document_id, world)
               IN /\ docreq' = before @@ [handled |-> TRUE, status |-> r.status,
                                           google_id |-> a.user.google_id, body |-> r.body]
                  /\ documents' = r.documents
                  /\ storage' = r.storage
  /\ UNCHANGED <<procVars, dbVars, oauthVars, att, upload, raceVars,
                 search, unique_google_id, sync, markreq, split>>

InitDocAccess ==
  /\ InitProcess
  /\ budget = 0
  /\ conversations = {}
  /\ nextConv = 0
  /\ OAuthIdle
  /\ AttIdle
  /\ storage = { d.file_path : d \in StoredDocs }
  /\ documents = StoredDocs
  /\ upload = NoUpload
  /\ RaceIdle
  /\ LateIdle

NextDocAccess ==
  \E ep \in DocRoutes, h \in RequestHeaders, id \in DocumentIds, w \in AccessWorlds :
    DocumentRequest(ep, h, id, w)

SpecDocAccess == InitDocAccess /\ [][NextDocAccess]_vars

(***************************************************************************)
(* POST /auth/sync-user: get_user_by_google_id, then create_user, each an  *)
(* execute_query of its own                                                *)
(***************************************************************************)
\* largest number of sync-user requests in one behaviour of SpecSync
MaxSyncs == 2

SyncProcs == 1..MaxSyncs

\* execute_query(query, params, fetch): what it returns for the rows of the
\* cursor
execute_query(rows, fetch) == IF fetch THEN rows ELSE None

\* get_user_by_google_id(google_id): the rows it can return as result[0]
get_user_by_google_id(us, google_id) == UserRows(us, google_id)

\* the id the database gives the next users row
NextUserId(us) == Cardinality(us) + 1

\* create_user(google_id, email, name): INSERT ... RETURNING id through
\* execute_query(..., fetch=False); the table is created outside this
\* repository, with or without UNIQUE (google_id)
create_user(us, google_id, unique) ==
  IF unique /\ UserRows(us, google_id) # {}
  THEN [raised |-> TRUE, users |-> us, ret |-> NoUserId]
  ELSE LET row == [id |-> NextUserId(us), google_id |-> google_id]
           result == execute_query(<<row>>, FALSE)
       IN [raised |-> FALSE, users |-> us \cup {row},
           ret |-> IF result # None THEN result[1].id ELSE NoUserId]

SyncHeaders == { h \in RequestHeaders : h.kind = "bearer" => (h.token.decodable /\ h.token.sub # "g2") }

\* a POST /auth/sync-user arrives
StartSync(h) ==
  /\ Len(sync) < MaxSyncs
  /\ \E a \in Depends("auth_sync_user", h) :
       sync' = Append(sync,
                 IF a.status # 200
                 THEN [pc |-> "answered", handled |-> FALSE, google_id |-> None,
                       status |-> a.status, message |-> "", user_id |-> NoUserId, created |-> FALSE]
                 ELSE [pc |-> "start", handled |-> TRUE, google_id |-> a.user.google_id,
                       status |-> 0, message |-> "", user_id |-> NoUserId, created |-> FALSE])
  /\ UNCHANGED <<procVars, dbVars, midVars, search, docreq, unique_google_id, markreq, split>>

\* sync_user_with_database: existing_user = get_user_by_google_id(google_id)
SyncCheck(p) ==
  /\ p \in DOMAIN sync
  /\ sync[p].pc = "start"
  /\ LET found == get_user_by_google_id(users, sync[p].google_id)
     IN IF found = {}
        THEN sync' = [sync EXCEPT ![p].pc = "missing"]
        ELSE \E existing_user \in found :
               sync' = [sync EXCEPT ![p].pc = "answered", ![p].status = 200,
                                    ![p].message = "User already exists",
                                    ![p].user_id = existing_user.id]
  /\ UNCHANGED <<procVars, dbVars, midVars, search, docreq, unique_google_id, markreq, split>>

\* sync_user_with_database: db_user = create_user(...), then db_user["id"];
\* create_user returns None or an int, and the subscript of either raises
\* TypeError, which 'except Exception' answers with 500
SyncCreate(p) ==
  /\ p \in DOMAIN sync
  /\ sync[p].pc = "missing"
  /\ LET r == create_user(users, sync[p].google_id, unique_google_id)
     IN /\ users' = r.users
        /\ sync' = [sync EXCEPT ![p].pc = "answered", ![p].status = 500,
                                ![p].message = "Failed to sync user",
                                ![p].user_id = r.ret,
                                ![p].created = ~r.raised]
  /\ UNCHANGED <<procVars, conversations, messages, attendance, nextConv, nextMsg, clock, posted,
                 midVars, search, docreq, unique_google_id, markreq, split>>

InitSync ==
  /\ InitProcess
  /\ budget = 0
  /\ conversations = {}
  /\ nextConv = 0
  /\ OAuthIdle
  /\ AttIdle
  /\ DocsIdle
  /\ RaceIdle
  /\ search = NoSearch
  /\ docreq = NoDocReq
  /\ unique_google_id \in BOOLEAN
  /\ sync = <<>>
  /\ markreq = NoMark
  /\ split = NoSplit

NextSync ==
  \/ \E h \in SyncHeaders : StartSync(h)
  \/ \E p \in SyncProcs : SyncCheck(p)
  \/ \E p \in SyncProcs : SyncCreate(p)

SpecSync == InitSync /\ [][NextSync]_vars

(***************************************************************************)
(* POST /attendance/mark                                                   *)
(***************************************************************************)
\* largest number of POST /attendance/mark requests in one behaviour of SpecMark
MaxMarks == 2

\* the JSON bodies: without course_name, with an empty one, with a course
MarkBodies ==
  {EmptyMap} \cup { [k \in {"course_name"} |-> c] : c \in {<<>>} \cup CourseNames }

\* str() of a users.id
str(n) == <<Digits[n + 1]>>

\* SupabaseQuery.single(): a SupabaseSingleQuery, which holds the query and
\* has execute() as its only method
single(table_name, columns, filters) ==
  [class |-> "SupabaseSingleQuery", table_name |-> table_name, columns |-> columns,
   filters |-> filters]

\* SupabaseSingleQuery.execute(): {"data": the row or None, "error": None}
SupabaseSingleQuery_execute(query, us) ==
  [class |-> "dict", data |-> { u \in us : u.google_id = query.filters }, error |-> None]

\* the handler's reading of user_data: the data of a dict, the attribute data
\* of an object that has one, else None (the empty set of rows)
user_info(user_data, us) ==
  IF user_data.class = "dict" THEN user_data.data
  ELSE IF "data" \in DOMAIN user_data THEN user_data.data
  ELSE {}

\* mark_attendance_endpoint(request, user)
mark_attendance_endpoint(att_table, us, request, user, dbok, marked_at) ==
  LET \* request.get('course_name'); None and '' are falsy alike
      course_name == Get(request, "course_name", <<>>)
      user_data == single("users", "id", user.google_id)
      info == user_info(user_data, us)
  IN IF course_name = <<>>
     THEN [status |-> 400, detail |-> "course_name is required", attendance |-> att_table]
     ELSE IF info = {}
     THEN [status |-> 404, detail |-> "User not found", attendance |-> att_table]
     ELSE LET user_id == (CHOOSE u \in info : TRUE).id
              r == mark_attendance(att_table, course_name, str(user_id), dbok, marked_at)
          IN IF ~r.ret.success
             THEN [status |-> 500, detail |-> r.ret.error, attendance |-> r.attendance]
             ELSE [status |-> 200, detail |-> "", attendance |-> r.attendance]

\* one POST /attendance/mark
MarkAttendanceEndpoint(h, request, dbok) ==
  /\ Len(markreq) < MaxMarks
  /\ \E a \in Depends("attendance_mark", h) :
       IF a.status # 200
       THEN /\ markreq' = Append(markreq, [handled |-> FALSE, header |-> h, request |-> request,
                                           google_id |-> None, status |-> a.status,
                                           before |-> attendance, after |-> attendance])
            /\ UNCHANGED <<attendance, clock>>
       ELSE LET r == mark_attendance_endpoint(attendance, users, request, a.user, dbok, clock + 1)
            IN /\ attendance' = r.attendance
               /\ clock' = IF r.attendance # attendance THEN clock + 1 ELSE clock
               /\ markreq' = Append(markreq, [handled |-> TRUE, header |-> h, request |-> request,
                                              google_id |-> a.user.google_id, status |-> r.status,
                                              before |-> attendance, after |-> r.attendance])
  /\ UNCHANGED <<procVars, users, conversations, messages, nextConv, nextMsg, posted,
                 midVars, search, docreq, unique_google_id, sync, split>>

InitMark ==
  /\ InitProcess
  /\ budget = 0
  /\ conversations = {}
  /\ nextConv = 0
  /\ AuxIdle

NextMark ==
  \E h \in RequestHeaders, request \in MarkBodies, dbok \in BOOLEAN :
      MarkAttendanceEndpoint(h, request, dbok)

SpecMark == InitMark /\ [][NextMark]_vars

(***************************************************************************)
(* SimpleTextSplitter.split_text, one iteration of its loop at a time      *)
(***************************************************************************)
\* longest text split in SpecSplit
MaxTextLen == 4
\* largest chunk_size in SpecSplit
MaxChunkSize == 3
\* the model keeps this many chunks of a run; a run that makes progress
\* appends at most one chunk per character
MaxChunks == MaxTextLen + 1

Alphabet == <<"a", "b", "c", "d", "e", "f">>
SplitTexts == { SubSeq(Alphabet, 1, n) : n \in 0..MaxTextLen }
\* chunk_size > chunk_overlap >= 0
SplitSettings ==
  { s \in [chunk_size : 1..MaxChunkSize, chunk_overlap : 0..(MaxChunkSize - 1)] :
      s.chunk_size > s.chunk_overlap }

\* text[start:end]: a negative index counts from the end of the text
Index(text, i) ==
  IF i < 0 THEN (IF i + Len(text) < 0 THEN 0 ELSE i + Len(text))
  ELSE IF i > Len(text) THEN Len(text) ELSE i
Slice(text, start, end) == SubSeq(text, Index(text, start) + 1, Index(text, end))

\* the statement that moves start after a chunk
NextStart(end, chunk_overlap) == end - chunk_overlap

\* splitter = SimpleTextSplitter(chunk_size, chunk_overlap); splitter.split_text(text)
SplitText(text, setting) ==
  /\ split.pc = "idle"
  /\ split' = [pc |-> "loop", text |-> text, chunk_size |-> setting.chunk_size,
               chunk_overlap |-> setting.chunk_overlap, start |-> 0, chunks |-> <<>>]
  /\ UNCHANGED <<procVars, dbVars, midVars, search, docreq, unique_google_id, sync, markreq>>

\* one pass through the body of 'while start < len(text)'
SplitStep ==
  /\ split.pc = "loop"
  /\ split.start < Len(split.text)
  /\ LET sum == split.start + split.chunk_size
         end == IF sum > Len(split.text) THEN Len(split.text) ELSE sum
         start == NextStart(end, split.chunk_overlap)
     IN split' = [split EXCEPT
                    !.chunks = IF Len(@) < MaxChunks
                               THEN Append(@, Slice(split.text, split.start, end))
                               ELSE @,
                    !.start = start,
                    !.pc = IF start >= Len(split.text) THEN "returned" ELSE "loop"]
  /\ UNCHANGED <<procVars, dbVars, midVars, search, docreq, unique_google_id, sync, markreq>>

\* the loop condition fails: return chunks
SplitReturn ==
  /\ split.pc = "loop"
  /\ ~(split.start < Len(split.text))
  /\ split' = [split EXCEPT !.pc = "returned"]
  /\ UNCHANGED <<procVars, dbVars, midVars, search, docreq, unique_google_id, sync, markreq>>

InitSplit ==
  /\ InitProcess
  /\ budget = 0
  /\ conversations = {}
  /\ nextConv = 0
  /\ AuxIdle

NextSplit ==
  \/ \E text \in SplitTexts, setting \in SplitSettings : SplitText(text, setting)
  \/ SplitStep
  \/ SplitReturn

SpecSplit == InitSplit /\ [][NextSplit]_vars

\* a call that has started keeps running
SpecSplitFair == SpecSplit /\ WF_vars(SplitStep) /\ WF_vars(SplitReturn)

(***************************************************************************)
(* C1                                                                      *)
(***************************************************************************)
Categories == {"study", "career", "attendance", "email"}
Rank == [study |-> 1, career |-> 2, attendance |-> 3, email |-> 4]
KeywordSet(c) == { IntentKeywords[c][j] : j \in 1..Len(IntentKeywords[c]) }
HasKeyword(c, text) == \E k \in KeywordSet(c) : Contains(k, text)

\* C1: detect_intent returns one of the five categories; it returns category
\* c exactly when a keyword of c occurs in the lowercased message and no
\* keyword of a category tested before c (study, career, attendance, email)
\* does, and general exactly when no keyword occurs; so attendance-only is
\* attendance, career-only is career, and both without study is career.
C1_FirstMatchWins ==
  call.fn = "detect_intent" =>
    LET t == Lower(call.message)
        r == call.ret
    IN /\ r \in Categories \cup {"general"}
       /\ \A c \in Categories :
            (r = c) <=> (HasKeyword(c, t) /\ \A d \in Categories : Rank[d] < Rank[c] => ~HasKeyword(d, t))
       /\ (r = "general") <=> (\A c \in Categories : ~HasKeyword(c, t))
       /\ (HasKeyword("attendance", t) /\ \A c \in Categories \ {"attendance"} : ~HasKeyword(c, t))
            => r = "attendance"
       /\ (HasKeyword("career", t) /\ \A c \in Categories \ {"career"} : ~HasKeyword(c, t))
            => r = "career"
       /\ (HasKeyword("career", t) /\ HasKeyword("attendance", t) /\ ~HasKeyword("study", t))
            => r = "career"

\* a message with an upper-case career keyword and an attendance keyword, and
\* no study keyword, has been classified career
C1_Witness ==
  /\ call.fn = "detect_intent"
  /\ call.message = Join(<< <<"m","a","r","k">>, <<"C","A","R","E","E","R">> >>)
  /\ call.ret = "career"

(***************************************************************************)
(* C2                                                                      *)
(***************************************************************************)
ToolsOf ==
  [study |-> {"get_study_material"}, career |-> {"get_career_insights"},
   attendance |-> {"mark_attendance", "get_attendance_records"},
   email |-> {"draft_email", "get_unread_emails"},
   general |-> {"get_study_material"}]

C3_ReplyContainsToolError ==
  (/\ req.pc \in {"replied", "responded"}
   /\ "success" \in DOMAIN req.returned
   /\ ~req.returned.success)
    => ReplyContains(req.reply, S(req.returned.error))

(***************************************************************************)
(* C4                                                                      *)
(***************************************************************************)
\* the failure cases of execute_tool: an unknown tool name, an attendance
\* tool without user_id, get_unread_emails without google_id, draft_email
\* without access token, and a tool function that raises
C4_FailureCase(c) ==
  \/ c.tool_name \notin ToolNames
  \/ c.tool_name \in {"mark_attendance", "get_attendance_records"} /\ c.user_id = NoUserId
  \/ c.tool_name = "get_unread_emails" /\ c.google_id = None
  \/ c.tool_name = "draft_email" /\ c.google_access_token = None
  \/ "raised" \in DOMAIN c.returned

\* C4: every call of execute_tool returns a dict with a boolean success
\* field and lets no exception out; with an unknown tool name, with a missing
\* user_id, google_id or access token that the tool needs, and with a tool
\* function that raises, success is false and the dict holds an error.
C4_AlwaysEnvelope ==
  call.fn = "execute_tool" =>
    /\ "raised" \notin DOMAIN call.ret
    /\ "success" \in DOMAIN call.ret
    /\ call.ret.success \in BOOLEAN
    /\ C4_FailureCase(call) =>
         /\ call.ret.success = FALSE
         /\ "error" \in DOMAIN call.ret

\* draft_email has been called without an access token and refused
C4_Witness ==
  /\ call.fn = "execute_tool"
  /\ call.tool_name = "draft_email"
  /\ call.google_access_token = None
  /\ call.ret = [success |-> FALSE, error |-> "Google access token is required"]

(***************************************************************************)
(* C5                                                                      *)
(***************************************************************************)
Open == HealthChecks \cup {"chat_test"}

C5_Answered ==
  /\ (resp.ep \in Endpoints \ Open /\ ~resp.token_ok) => (resp.status = 401 /\ ~resp.handled)
  /\ (req.ep \in Endpoints \ Open /\ ~req.token_ok) =>
       /\ req.pc = "responded"
       /\ req.status = 401
       /\ req.execCalls = 0
       /\ req.llmCalls = 0
       /\ req.writes = 0
  /\ req.ep = "chat_test" => req.writes = 0

C5_Rejection ==
  \/ nreq' = nreq + 1 /\ resp' # resp /\ resp'.status = 401
  \/ nreq' = nreq + 1 /\ req' # req /\ req'.status = 401

\* C5: every route except the health checks and POST /chat/test
\* requires the Bearer token: a request to such a route without a token that
\* verify_supabase_token accepts is answered 401, its handler does not run,
\* it executes no tool, calls no LLM and changes no table. POST /chat/test
\* takes no token and writes no message.
C5_TokenRequired ==
  [][ /\ C5_Answered'
      /\ C5_Rejection => UNCHANGED <<users, conversations, messages, attendance>> ]_vars

\* POST /chat without Authorization header has been answered 401, with the
\* tables as they were
C5_Witness ==
  /\ req.ep = "chat"
  /\ ~req.token_ok
  /\ req.pc = "responded"
  /\ req.status = 401
  /\ messages = {}

\* C5, as the specification words it: every route except the health checks requires the token, so
\* a request without a valid token executes no tool, calls no LLM and is
\* answered 401.
C5_AllButHealthRequireToken ==
  (req.ep \in Endpoints \ HealthChecks /\ ~req.token_ok) =>
    /\ req.execCalls = 0
    /\ req.llmCalls = 0
    /\ req.pc = "responded" => req.status = 401

(***************************************************************************)
(* C6                                                                      *)
(***************************************************************************)
C6_Invalid(h) ==
  \/ h.kind # "bearer"
  \/ ~h.token.decodable
  \/ h.token.expired
  \/ h.token.sub = None
  \/ h.token.email = None

\* C6: verify_supabase_token answers 401 for a missing header, a header that
\* is no Bearer header, an undecodable token, an expired token and a token
\* without sub or email; for every other token it returns user_id =
\* google_id = sub and the email; it answers no other status.
C6_RejectsInvalidTokens ==
  call.fn = "verify_supabase_token" =>
    /\ call.ret.status \in {200, 401}
    /\ C6_Invalid(call.authorization) => call.ret.status = 401
    /\ ~C6_Invalid(call.authorization) =>
         call.ret = [status |-> 200,
                     user |-> [user_id |-> call.authorization.token.sub,
                               email |-> call.authorization.token.email,
                               google_id |-> call.authorization.token.sub]]

(***************************************************************************)
(* C7                                                                      *)
(***************************************************************************)
C7_Refusal ==
  /\ nreq' = nreq + 1
  /\ resp'.ep \in {"delete_conversation", "update_conversation"}
  /\ resp'.handled
  /\ ~OwnsConversation(conversations, users, resp'.conversation_id, resp'.google_id)

\* C7: delete_conversation and update_conversation_title, called for a
\* conversation that the google_id does not own or that does not exist, raise
\* the error "Conversation not found or access denied" and leave every
\* conversation row and every message row as it was.
C7_NonOwnerDenied ==
  [][ C7_Refusal =>
        /\ resp'.error = NotFoundOrDenied
        /\ Contains(<<"a","c","c","e","s","s"," ","d","e","n","i","e","d">>, resp'.error)
        /\ conversations' = conversations
        /\ messages' = messages ]_vars

\* g2 has tried to delete a conversation of g1 that holds a message; the
\* conversation and the message are still there
C7_Witness ==
  /\ resp.ep = "delete_conversation"
  /\ resp.handled
  /\ resp.google_id = "g2"
  /\ resp.error = NotFoundOrDenied
  /\ \E c \in conversations :
       /\ c.id = resp.conversation_id
       /\ c.user_id = 1
       /\ \E m \in messages : m.conversation_id = c.id

(***************************************************************************)
(* C8                                                                      *)
(***************************************************************************)
OwnerOf(c) == (CHOOSE u \in users : u.id = c.user_id).google_id

Stored(c) ==
  LET rows == get_messages_by_conversation(messages, conversations, users, c.id, OwnerOf(c))
  IN [i \in 1..Len(rows) |-> [role |-> rows[i].role, content |-> rows[i].content]]

RowIds(c) ==
  LET rows == get_messages_by_conversation(messages, conversations, users, c.id, OwnerOf(c))
  IN [i \in 1..Len(rows) |-> rows[i].id]

\* C8: for every conversation create_conversation made, what
\* get_messages_by_conversation returns to its owner is what
\* add_message_to_conversation was given, post by post, in the order of the
\* posts: nothing lost, nothing twice, nothing reordered, nothing modified.
C8_PostsRetrievedInOrder ==
  \A c \in conversations :
    /\ Stored(c) = posted[c.id]
    /\ \A i, j \in 1..Len(RowIds(c)) : i # j => RowIds(c)[i] # RowIds(c)[j]

\* two different messages have been posted to a conversation and come back
\* in the order of the posts
C8_Witness ==
  \E c \in conversations :
    /\ Len(posted[c.id]) = 2
    /\ posted[c.id][1].content = <<T(<<"y","o">>)>>
    /\ posted[c.id][2].content = <<T(<<"h","i">>)>>
    /\ Stored(c) = posted[c.id]

(***************************************************************************)
(* C9                                                                      *)
(***************************************************************************)
States(result) ==
  <<"RECEIVED", "AUTHENTICATED", "INTENT_DETECTED", "TOOL_DISPATCHED", result,
    "PERSISTED", "RESPONDED">>

\* the states of a request that finds no LLM provider
ErrorStates == <<"RECEIVED", "AUTHENTICATED", "ERROR_REPLY", "PERSISTED", "RESPONDED">>

Paths == {States("RESULT_SYNTHESIZED"), States("RESULT_FORMATTED"), ErrorStates}

IsState(e) == e \notin {"WRITE_USER", "WRITE_AI", "MEMORY_USER", "MEMORY_AI", "PERSIST_FAILED"}
IsProgress(e) == IsState(e) /\ e # "RESPONDED"

IsPrefix(s, t) == Len(s) <= Len(t) /\ \A i \in 1..Len(s) : s[i] = t[i]

Positions(e) == { i \in 1..Len(req.trace) : req.trace[i] = e }
Before(a, b) == \A i \in Positions(a), j \in Positions(b) : i < j
Formatted == Positions("RESULT_SYNTHESIZED") \cup Positions("RESULT_FORMATTED") \cup
             Positions("ERROR_REPLY")

UserMessageStored(r, msgs) ==
  \E m \in msgs :
    /\ m.conversation_id = r.conversation_id
    /\ m.role = "user"
    /\ m.content = <<T(r.message)>>

\* storing the AI reply fails
C10_ReplyNotStored ==
  /\ req.ep = "chat"
  /\ req.pc = "replied"
  /\ req'.pc = "responded"
  /\ req'.status # 200

\* storing the user message fails: the conversation is unknown
C10_UnknownConversation ==
  /\ req.ep = "chat"
  /\ req.pc = "authenticated"
  /\ UserRows(users, req.google_id) # {}
  /\ req.conversation_id # None
  /\ \A c \in conversations : c.id # req.conversation_id
  /\ req' # req

\* C10: when storing the AI reply of a POST /chat request fails, the request
\* is answered 500 and no message row is removed: the user message stored in
\* the conversation stays. When storing the user message fails because the
\* conversation is unknown, the request is answered 500, nothing is stored
\* and no tool has been dispatched.
C10_NoRollback ==
  [][ /\ C10_ReplyNotStored =>
           /\ req'.status = 500
           /\ messages' = messages
           /\ UserMessageStored(req, messages) => UserMessageStored(req', messages')
      /\ C10_UnknownConversation =>
           /\ req'.pc = "responded"
           /\ req'.status = 500
           /\ req'.execCalls = 0
           /\ messages' = messages ]_vars

\* the AI reply could not be stored: the request has been answered 500 and
\* the user message is in the conversation
C10_Witness ==
  /\ req.ep = "chat"
  /\ req.pc = "responded"
  /\ req.status = 500
  /\ req.conversation_id # None
  /\ req.execCalls = 1
  /\ \E i \in 1..Len(req.trace) : req.trace[i] = "PERSIST_FAILED"
  /\ UserMessageStored(req, messages)

(***************************************************************************)
(* C11                                                                     *)
(***************************************************************************)
\* C11: a state that was in the store when google_oauth_callback was invoked
\* with it is not in the store when the callback has returned, whether the
\* callback succeeded or failed; no state has led to more than one
\* successful token exchange.
C11_StateSingleUse ==
  /\ (oauth.cb.invoked /\ oauth.cb.present) => oauth.cb.state \notin DOMAIN oauth_states
  /\ \A s \in DOMAIN oauth.exchanged : oauth.exchanged[s] <= 1

\* a state has been exchanged for tokens and then presented again: the
\* second callback is refused, the state being unknown
C11_Witness ==
  /\ oauth.cb.invoked
  /\ ~oauth.cb.present
  /\ oauth.cb.status = 400
  /\ oauth.cb.state \in DOMAIN oauth.exchanged
  /\ oauth.exchanged[oauth.cb.state] = 1

(***************************************************************************)
(* C12                                                                     *)
(***************************************************************************)
\* the issuing user has presented a state that was in the store
C12_ByIssuer ==
  /\ oauth.cb.invoked
  /\ oauth.cb.present
  /\ oauth.cb.issuer = oauth.cb.google_id

\* C12: a callback of the issuing user with a state issued more than 600
\* seconds earlier is answered 400, sends no token-exchange request and
\* removes the state; a callback within the 600 seconds sends the
\* token-exchange request when the Google client id and secret are
\* configured, and is answered 500 without sending it when they are not.
C12_StateExpiry ==
  C12_ByIssuer =>
    /\ oauth.cb.age > 600 =>
         /\ oauth.cb.status = 400
         /\ oauth.cb.detail = "State parameter has expired"
         /\ oauth.cb.posts = 0
         /\ oauth.cb.state \notin DOMAIN oauth_states
    /\ (oauth.cb.age <= 600 /\ google_credentials) => oauth.cb.posts = 1
    /\ (oauth.cb.age <= 600 /\ ~google_credentials) =>
         /\ oauth.cb.status = 500
         /\ oauth.cb.posts = 0

\* a state 601 seconds old has been refused, and no request was ever sent
\* to Google
C12_Witness ==
  /\ C12_ByIssuer
  /\ oauth.cb.age = 601
  /\ oauth.cb.status = 400
  /\ oauth.posts = 0
  /\ oauth.cb.state \notin DOMAIN oauth_states

\* C12, as the specification words it: a state older than 600 seconds is
\* refused with 400 without token exchange, a callback within the 600
\* seconds by the issuing user proceeds to the token exchange.
C12_WithinTTLExchanges ==
  C12_ByIssuer =>
    /\ oauth.cb.age > 600 => (oauth.cb.status = 400 /\ oauth.cb.posts = 0)
    /\ oauth.cb.age <= 600 => oauth.cb.posts = 1

(***************************************************************************)
(* C13                                                                     *)
(***************************************************************************)
\* the records get_attendance_records returns for the user of a mark
RecordsOf(user_id) == get_attendance_records_str(attendance, user_id, <<>>, TRUE)

HasRecord(ret, course_name, since) ==
  \E i \in 1..Len(ret.records) :
    /\ ret.records[i].course_name = course_name
    /\ ret.records[i].marked_at >= since

Count(s, P(_)) == Cardinality({ i \in 1..Len(s) : P(s[i]) })

\* C14: the number of attendance rows of a user for a course is the number
\* of mark_attendance calls for that user and course that returned success;
\* the rows the table held stay where they were and as they were.
C14_AppendOnly ==
  /\ \A u \in {1, 2}, c \in CourseNames :
       LET IsRow(r) == r.user_id = u /\ r.course_name = c
           IsMark(mk) == int(mk.user_id) = u /\ mk.course_name = c
       IN Count(attendance, IsRow) = Count(att.marks, IsMark)
  /\ call.fn \in {"mark_attendance", "get_attendance_records"} =>
       /\ Len(call.before) <= Len(attendance)
       /\ SubSeq(attendance, 1, Len(call.before)) = call.before

\* user 1 has marked CS101 twice at the same time: two rows
C14_Witness ==
  /\ Len(attendance) = 2
  /\ attendance[1] = attendance[2]
  /\ attendance[1].course_name = <<"C","S","1","0","1">>
  /\ Len(att.marks) = 2

(***************************************************************************)
(* C15                                                                     *)
(***************************************************************************)
\* a PDF or DOCX by its declared content type and by its filename extension
IsPdfOrDocx(file) ==
  /\ file.content_type \in AllowedTypes
  /\ file_extension(file.filename) \in { <<"p","d","f">>, <<"d","o","c","x">> }

\* C15: an upload of a file that is not a PDF or DOCX, by its content type
\* or by its filename extension, is rejected and has made no storage upload,
\* no embedding call and no insert into the documents table: storage and
\* the documents table are as they were.
C15_RejectedBeforeStorage ==
  (upload.done /\ upload.handled /\ ~IsPdfOrDocx(upload.file)) =>
    /\ upload.status # 200
    /\ upload.stored = 0
    /\ upload.embeds = 0
    /\ upload.inserted = 0
    /\ storage = {}
    /\ documents = {}

(***************************************************************************)
(* C16                                                                     *)
(***************************************************************************)
\* C16: get_llm_provider raises whenever the provider LLM_PROVIDER selects
\* is unknown or its API key is absent, for each of the five providers; when
\* it returns, it returns the selected provider, and it does return it when
\* the provider is known, its key set and its client library installed.
C16_RaisesWithoutKey ==
  call.fn = "get_llm_provider" =>
    /\ (call.LLM_PROVIDER \notin ProviderNames \/ call.LLM_PROVIDER \notin call.keys)
         => call.ret.raised # ""
    /\ call.ret.raised = "" => call.ret.provider = call.LLM_PROVIDER
    /\ (/\ call.LLM_PROVIDER \in ProviderNames
        /\ call.LLM_PROVIDER \in call.keys
        /\ call.LLM_PROVIDER \in call.installed)
         => call.ret = [raised |-> "", provider |-> call.LLM_PROVIDER]

(***************************************************************************)
(* C17                                                                     *)
(***************************************************************************)
\* C17: a POST /conversations/{id}/messages by a caller who does not own the
\* conversation is not answered 200, and a POST /chat with the conversation_id
\* of a conversation the caller does not own writes no message to it and is
\* not answered 200.
C17_OnlyOwnerAppends ==
  /\ (/\ resp.ep = "add_message"
      /\ resp.handled
      /\ ~OwnsConversation(conversations, users, resp.conversation_id, resp.google_id))
       => resp.status # 200
  /\ (/\ req.ep = "chat"
      /\ req.conversation_id # None
      /\ req.google_id # None
      /\ ~OwnsConversation(conversations, users, req.conversation_id, req.google_id))
       => /\ Positions("WRITE_USER") = {}
          /\ Positions("WRITE_AI") = {}
          /\ req.status # 200

(***************************************************************************)
(* C18                                                                     *)
(***************************************************************************)
\* C18: every message with a conversation_id refers to a conversation row
\* that exists, and no delete_conversation has ended with messages deleted
\* while the conversation row is still there.
C18_NoOrphanNoPartialDelete ==
  /\ \A m \in messages :
       m.conversation_id # None => \E c \in conversations : c.id = m.conversation_id
  /\ \A p \in DOMAIN procs :
       (/\ procs[p].op = "delete_conversation"
        /\ procs[p].pc \in {"returned", "raised"}
        /\ procs[p].deleted > 0)
         => \A c \in conversations : c.id # procs[p].conversation_id

(***************************************************************************)
(* C19                                                                     *)
(***************************************************************************)
\* the rows of GET /chat/messages that hold the given role and content
Listed(user_id, role, content) ==
  LET rows == get_messages(messages, user_id)
  IN { i \in 1..Len(rows) : rows[i].role = role /\ rows[i].content = content }

\* C19: a POST /chat answered 200 has written exactly one user message row
\* and exactly one ai message row, and GET /chat/messages lists the user
\* message once and the reply once, the user message first.
C19_ExchangeStoredOnce ==
  (req.ep = "chat" /\ req.pc = "responded" /\ req.status = 200) =>
    /\ Cardinality(Positions("WRITE_USER") \cup Positions("MEMORY_USER")) = 1
    /\ Cardinality(Positions("WRITE_AI") \cup Positions("MEMORY_AI")) = 1
    /\ req.writes = 2
    /\ Cardinality(Listed(req.user_id, "user", <<T(req.message)>>)) = 1
    /\ Cardinality(Listed(req.user_id, "ai", req.reply)) = 1
    /\ \A i \in Listed(req.user_id, "user", <<T(req.message)>>),
          j \in Listed(req.user_id, "ai", req.reply) : i < j


(***************************************************************************)
(* C20                                                                     *)
(***************************************************************************)
\* the tool function of this request inserted an attendance row
InsertedAttendance ==
  /\ req.tool_name = "mark_attendance"
  /\ Get(req.returned, "success", FALSE)
  /\ attendance # <<>>

ConfirmsMarked(reply) == ReplyContains(reply, S("Attendance marked successfully for "))
ReportsError(reply) ==
  \/ ReplyContains(reply, S(ErrorPrefix))
  \/ ReplyContains(reply, S("There was an issue marking your attendance: "))

\* C20: for a chat message with attendance intent of a logged-in user, the
\* reply confirms the marking exactly when the request inserted an attendance
\* row, and a reply that reports an error means no row was inserted.
C20_ReplyMatchesDatabase ==
  (/\ req.ep \in {"chat", "chat_test"}
   /\ req.intent = "attendance"
   /\ req.user_id # NoUserId
   /\ req.pc \in {"replied", "responded"}
   /\ req.tool_name # None) =>
    /\ ConfirmsMarked(req.reply) <=> InsertedAttendance
    /\ ReportsError(req.reply) => ~InsertedAttendance

(***************************************************************************)
(* C21                                                                     *)
(***************************************************************************)
\* C21: for a message of attendance or email intent, the tool_name recorded
\* in tool_results is the name of the tool execute_tool was called with.
C21_LabelIsExecutedTool ==
  (req.intent \in {"attendance", "email"} /\ req.tool_name # None) =>
    req.tool_label = req.tool_name

(***************************************************************************)
(* C23                                                                     *)
(***************************************************************************)
\* C23: a callback with a state that is not in the store, or that was issued
\* to another user than the caller, is answered 400 and sends no
\* token-exchange request; a successful exchange was asked for by the user
\* the state was issued to.
C23_OnlyIssuerExchanges ==
  oauth.cb.invoked =>
    /\ (~oauth.cb.present \/ oauth.cb.issuer # oauth.cb.google_id) =>
         /\ oauth.cb.status = 400
         /\ oauth.cb.posts = 0
         /\ ~oauth.cb.success
    /\ oauth.cb.posts > 0 =>
         (oauth.cb.present /\ oauth.cb.issuer = oauth.cb.google_id)

\* another user than the one the state was issued to has presented it; no
\* request was ever sent to Google
C23_Witness ==
  /\ oauth.cb.invoked
  /\ oauth.cb.present
  /\ oauth.cb.issuer # oauth.cb.google_id
  /\ oauth.cb.status = 400
  /\ oauth.posts = 0

(***************************************************************************)
(* C25                                                                     *)
(***************************************************************************)
\* C25: every message GET /conversations/{id}/messages returns is a message
\* of the conversation asked for, and that conversation belongs to the user
\* with the caller's google_id; the route answers 404 when the conversation
\* does not exist.
C25_OnlyOwnMessages ==
  (resp.ep = "get_conversation_messages" /\ resp.handled) =>
    /\ \A i \in 1..Len(resp.body) :
         /\ \E m \in messages :
              m.id = resp.body[i].id /\ m.conversation_id = resp.conversation_id
         /\ OwnsConversation(conversations, users, resp.conversation_id, resp.google_id)
    /\ (~\E c \in conversations : c.id = resp.conversation_id) => resp.status = 404
    /\ resp.status \in {200, 404}

\* g2 has asked for the messages of a conversation of g1 that holds a
\* message, and got none of them
C25_Witness ==
  /\ resp.ep = "get_conversation_messages"
  /\ resp.handled
  /\ resp.google_id = "g2"
  /\ resp.status = 200
  /\ resp.body = <<>>
  /\ \E c \in conversations :
       /\ c.id = resp.conversation_id
       /\ c.user_id = 1
       /\ \E m \in messages : m.conversation_id = c.id

(***************************************************************************)
(* C26                                                                     *)
(***************************************************************************)
\* C26: DELETE and PUT /conversations/{id} answer 404 when the conversation
\* does not exist, 403 when it exists and belongs to another user, and 500 in
\* neither case.
C26_NotFoundVersusDenied ==
  (/\ resp.ep \in {"delete_conversation", "update_conversation"}
   /\ resp.handled
   /\ resp.status # 200) =>
    /\ resp.status \in {403, 404}
    /\ resp.status = 404 <=> ~\E c \in conversations : c.id = resp.conversation_id
    /\ resp.status = 403 <=>
         \E c \in conversations :
           /\ c.id = resp.conversation_id
           /\ ~OwnsConversation(conversations, users, c.id, resp.google_id)

(***************************************************************************)
(* C22                                                                     *)
(***************************************************************************)
\* the user row of the caller of the last search, if there is one
SearchCaller == UserRows(users, search.google_id)

\* C22: every chunk a search of the study material returns is owned by the
\* requesting user or is global (of the requester's course or of no course;
\* of any course when the request carries no user); a chunk of another user
\* is never returned.
C22_NoForeignChunks ==
  (search.done /\ search.reached) =>
    \A d \in search.chunks :
      \/ \E u \in SearchCaller : d.user_id = u.id
      \/ d.user_id = NoUserId /\ d.course_name = None
      \/ d.user_id = NoUserId /\ \E u \in SearchCaller : d.course_name = u.course_name
      \/ d.user_id = NoUserId /\ search.google_id = None

(***************************************************************************)
(* C24                                                                     *)
(***************************************************************************)
\* the row the last request asked for, as it was before the request
AskedDoc == SingleDoc(docreq.documents, docreq.document_id)
\* the ids of the user rows of its caller
CallerIds == { u.id : u \in UserRows(users, docreq.google_id) }
DocsUntouched == documents = docreq.documents /\ storage = docreq.storage

C27_OneRowPerGoogleId ==
  /\ \A u, v \in users : u.google_id = v.google_id => u = v
  /\ \A p \in DOMAIN sync :
       (sync[p].pc = "answered" /\ sync[p].handled) =>
         Cardinality(UserRows(users, sync[p].google_id)) = 1

(***************************************************************************)
(* C28                                                                     *)
(***************************************************************************)
\* C28: a sync-user request that created the user row answers 'User created
\* successfully' with the id of that row, a request that found the row
\* answers 'User already exists' with its id, and a request answered with an
\* error has created no user row.
C28_CreatedIsReported ==
  \A p \in DOMAIN sync :
    (sync[p].pc = "answered" /\ sync[p].handled) =>
      /\ sync[p].created =>
           /\ sync[p].status = 200
           /\ sync[p].message = "User created successfully"
           /\ \E u \in UserRows(users, sync[p].google_id) : u.id = sync[p].user_id
      /\ sync[p].status = 200 =>
           \E u \in UserRows(users, sync[p].google_id) : u.id = sync[p].user_id
      /\ sync[p].status # 200 => ~sync[p].created

(***************************************************************************)
(* C29                                                                     *)
(***************************************************************************)
HasUserRow(google_id) == UserRows(users, google_id) # {}

\* C29: POST /attendance/mark answers 400 and records nothing when
\* course_name is missing or empty; for a caller with a user row and a
\* non-empty course_name it answers 200 and appends exactly one attendance
\* record for that user and course; it answers 404 only when the caller has
\* no user row.
C29_MarkEndpoint ==
  \A i \in DOMAIN markreq :
    LET m == markreq[i]
        course_name == Get(m.request, "course_name", <<>>)
    IN m.handled =>
         /\ course_name = <<>> => (m.status = 400 /\ m.after = m.before)
         /\ (course_name # <<>> /\ HasUserRow(m.google_id)) =>
              /\ m.status = 200
              /\ Len(m.after) = Len(m.before) + 1
              /\ SubSeq(m.after, 1, Len(m.before)) = m.before
              /\ m.after[Len(m.after)].course_name = course_name
              /\ \E u \in UserRows(users, m.google_id) : m.after[Len(m.after)].user_id = u.id
         /\ m.status = 404 => ~HasUserRow(m.google_id)


(***************************************************************************)
(* C30                                                                     *)
(***************************************************************************)
\* the characters of the chunks, in the order of the chunks
RECURSIVE Concat(_)
Concat(chunks) == IF chunks = <<>> THEN <<>> ELSE Head(chunks) \o Concat(Tail(chunks))

\* t without the characters that repeat an earlier one
RECURSIVE Dedup(_)
Dedup(t) ==
  IF t = <<>> THEN <<>>
  ELSE LET init == SubSeq(t, 1, Len(t) - 1)
           last == t[Len(t)]
       IN IF \E i \in 1..Len(init) : init[i] = last THEN Dedup(init) ELSE Append(Dedup(init), last)

\* every chunk has at most chunk_size characters, and the chunks, overlaps
\* taken once, are the text
ChunksCover(s) ==
  /\ \A i \in DOMAIN s.chunks : Len(s.chunks[i]) <= s.chunk_size
  /\ Dedup(Concat(s.chunks)) = s.text

\* C30: every call of split_text with chunk_size > chunk_overlap >= 0
\* returns, and what it returns are chunks of at most chunk_size characters
\* that together cover the whole text in order.
C30_SplitTerminates ==
  /\ (split.pc = "loop") ~> (split.pc = "returned")
  /\ [](split.pc = "returned" => ChunksCover(split))
=============================================================================
